---- MODULE Spec2Model ----
(***************************************************************************)
(* macbook-turbo: the decision engine of the menu-bar monitor.             *)
(*   - modules/process_scorer.py : classification, protection, kill score, *)
(*     ranked queries and the graceful-then-forced terminator              *)
(*   - cpu-menubar-enhanced.py   : the auto-clean controller, its cooldown *)
(*     and the cleanup passes it starts                                    *)
(*   - modules/disk_cleaner.py   : the registry of cleanup targets and     *)
(*     clean(), in dry-run and in real mode                                *)
(* Units: CPU% and memory% are kept in tenths of a percent, kill scores in *)
(* hundredths (the score is rounded to two decimals), time in seconds,     *)
(* file sizes in bytes.                                                    *)
(***************************************************************************)
EXTENDS Integers, Sequences, FiniteSets, Bags, TLC

Min(a, b) == IF a <= b THEN a ELSE b

Max(a, b) == IF a >= b THEN a ELSE b

\* Python's None where a ProcessInfo is expected, and the pid of no process.
None == [pid |-> 0]

NoPid == 0

(***************************************************************************)
(* ProcessCategory and the pattern tables (process_scorer.py).  A pattern  *)
(* is a set of literal alternatives plus the end anchor `$`; the regex     *)
(* python[23]?$ is the three literals python, python2, python3.            *)
(***************************************************************************)
SYSTEM_CRITICAL == "system_critical"

DEVELOPMENT == "development"

TERMINAL == "terminal"

BROWSER == "browser"

COMMUNICATION == "communication"

CLOUD_SYNC == "cloud_sync"

MEDIA == "media"

BACKGROUND == "background"

UNKNOWN == "unknown"

ProcessCategory ==
  {SYSTEM_CRITICAL, DEVELOPMENT, TERMINAL, BROWSER, COMMUNICATION,
   CLOUD_SYNC, MEDIA, BACKGROUND, UNKNOWN}

\* The tables are keyed by the value of the category.
PROTECTED_PATTERNS ==
  [
   system_critical |->
     <<
      [alts |-> {<<"k", "e", "r", "n", "e", "l", "_", "t", "a", "s", "k">>}, anchored |-> FALSE],
      [alts |-> {<<"l", "a", "u", "n", "c", "h", "d">>}, anchored |-> FALSE],
      [alts |-> {<<"S", "y", "s", "t", "e", "m", "U", "I", "S", "e", "r", "v", "e", "r">>}, anchored |-> FALSE],
      [alts |-> {<<"F", "i", "n", "d", "e", "r">>}, anchored |-> FALSE],
      [alts |-> {<<"D", "o", "c", "k">>}, anchored |-> FALSE],
      [alts |-> {<<"l", "o", "g", "i", "n", "w", "i", "n", "d", "o", "w">>}, anchored |-> FALSE],
      [alts |-> {<<"W", "i", "n", "d", "o", "w", "S", "e", "r", "v", "e", "r">>}, anchored |-> FALSE],
      [alts |-> {<<"a", "i", "r", "p", "o", "r", "t", "d">>}, anchored |-> FALSE],
      [alts |-> {<<"b", "l", "u", "e", "t", "o", "o", "t", "h", "d">>}, anchored |-> FALSE],
      [alts |-> {<<"c", "o", "r", "e", "a", "u", "d", "i", "o", "d">>}, anchored |-> FALSE],
      [alts |-> {<<"c", "f", "p", "r", "e", "f", "s", "d">>}, anchored |-> FALSE],
      [alts |-> {<<"d", "i", "s", "k", "a", "r", "b", "i", "t", "r", "a", "t", "i", "o", "n", "d">>}, anchored |-> FALSE],
      [alts |-> {<<"m", "d", "s">>}, anchored |-> TRUE],
      [alts |-> {<<"n", "o", "t", "i", "f", "y", "d">>}, anchored |-> FALSE],
      [alts |-> {<<"s", "e", "c", "u", "r", "i", "t", "y", "d">>}, anchored |-> FALSE],
      [alts |-> {<<"t", "r", "u", "s", "t", "d">>}, anchored |-> FALSE],
      [alts |-> {<<"u", "s", "b", "d">>}, anchored |-> FALSE],
      [alts |-> {<<"p", "o", "w", "e", "r", "d">>}, anchored |-> FALSE],
      [alts |-> {<<"f", "s", "e", "v", "e", "n", "t", "s", "d">>}, anchored |-> FALSE],
      [alts |-> {<<"c", "o", "r", "e", "d", "u", "e", "t", "d">>}, anchored |-> FALSE],
      [alts |-> {<<"s", "y", "m", "p", "t", "o", "m", "s", "d">>}, anchored |-> FALSE],
      [alts |-> {<<"a", "p", "s", "d">>}, anchored |-> FALSE],
      [alts |-> {<<"c", "l", "o", "u", "d", "d">>}, anchored |-> FALSE],
      [alts |-> {<<"n", "s", "u", "r", "l", "s", "e", "s", "s", "i", "o", "n", "d">>}, anchored |-> FALSE],
      [alts |-> {<<"C", "o", "m", "m", "C", "e", "n", "t", "e", "r">>}, anchored |-> FALSE],
      [alts |-> {<<"U", "s", "e", "r", "E", "v", "e", "n", "t", "A", "g", "e", "n", "t">>}, anchored |-> FALSE],
      [alts |-> {<<"s", "y", "s", "l", "o", "g", "d">>}, anchored |-> FALSE],
      [alts |-> {<<"c", "o", "n", "f", "i", "g", "d">>}, anchored |-> FALSE],
      [alts |-> {<<"o", "p", "e", "n", "d", "i", "r", "e", "c", "t", "o", "r", "y", "d">>}, anchored |-> FALSE]
     >>,
   development |->
     <<
      [alts |-> {<<"C", "o", "d", "e">>}, anchored |-> TRUE],
      [alts |-> {<<"C", "o", "d", "e", " ", "H", "e", "l", "p", "e", "r">>}, anchored |-> FALSE],
      [alts |-> {<<"C", "o", "d", "e", " ", "-", " ", "I", "n", "s", "i", "d", "e", "r", "s">>}, anchored |-> FALSE],
      [alts |-> {<<"c", "o", "d", "e", "-", "s", "e", "r", "v", "e", "r">>}, anchored |-> FALSE],
      [alts |-> {<<"C", "u", "r", "s", "o", "r">>}, anchored |-> FALSE],
      [alts |-> {<<"c", "u", "r", "s", "o", "r">>}, anchored |-> FALSE],
      [alts |-> {<<"I", "n", "t", "e", "l", "l", "i", "J">>}, anchored |-> FALSE],
      [alts |-> {<<"W", "e", "b", "S", "t", "o", "r", "m">>}, anchored |-> FALSE],
      [alts |-> {<<"P", "y", "C", "h", "a", "r", "m">>}, anchored |-> FALSE],
      [alts |-> {<<"R", "u", "b", "y", "M", "i", "n", "e">>}, anchored |-> FALSE],
      [alts |-> {<<"G", "o", "L", "a", "n", "d">>}, anchored |-> FALSE],
      [alts |-> {<<"D", "a", "t", "a", "G", "r", "i", "p">>}, anchored |-> FALSE],
      [alts |-> {<<"R", "i", "d", "e", "r">>}, anchored |-> FALSE],
      [alts |-> {<<"C", "L", "i", "o", "n">>}, anchored |-> FALSE],
      [alts |-> {<<"P", "h", "p", "S", "t", "o", "r", "m">>}, anchored |-> FALSE],
      [alts |-> {<<"A", "p", "p", "C", "o", "d", "e">>}, anchored |-> FALSE],
      [alts |-> {<<"X", "c", "o", "d", "e">>}, anchored |-> FALSE],
      [alts |-> {<<"A", "n", "d", "r", "o", "i", "d", " ", "S", "t", "u", "d", "i", "o">>}, anchored |-> FALSE],
      [alts |-> {<<"S", "u", "b", "l", "i", "m", "e">>}, anchored |-> FALSE],
      [alts |-> {<<"T", "e", "x", "t", "E", "d", "i", "t">>}, anchored |-> FALSE],
      [alts |-> {<<"N", "o", "v", "a">>}, anchored |-> FALSE],
      [alts |-> {<<"B", "B", "E", "d", "i", "t">>}, anchored |-> FALSE],
      [alts |-> {<<"A", "t", "o", "m">>}, anchored |-> FALSE],
      [alts |-> {<<"B", "r", "a", "c", "k", "e", "t", "s">>}, anchored |-> FALSE],
      [alts |-> {<<"v", "i", "m">>}, anchored |-> FALSE],
      [alts |-> {<<"n", "v", "i", "m">>}, anchored |-> FALSE],
      [alts |-> {<<"e", "m", "a", "c", "s">>}, anchored |-> FALSE],
      [alts |-> {<<"n", "a", "n", "o">>}, anchored |-> FALSE],
      [alts |-> {<<"m", "i", "c", "r", "o">>}, anchored |-> FALSE],
      [alts |-> {<<"n", "o", "d", "e">>}, anchored |-> TRUE],
      [alts |-> {<<"n", "p", "m">>}, anchored |-> FALSE],
      [alts |-> {<<"y", "a", "r", "n">>}, anchored |-> FALSE],
      [alts |-> {<<"p", "n", "p", "m">>}, anchored |-> FALSE],
      [alts |-> {<<"b", "u", "n">>}, anchored |-> FALSE],
      [alts |-> {<<"p", "y", "t", "h", "o", "n">>, <<"p", "y", "t", "h", "o", "n", "2">>, <<"p", "y", "t", "h", "o", "n", "3">>}, anchored |-> TRUE],
      [alts |-> {<<"p", "i", "p">>}, anchored |-> FALSE],
      [alts |-> {<<"r", "u", "b", "y">>}, anchored |-> FALSE],
      [alts |-> {<<"g", "e", "m">>}, anchored |-> FALSE],
      [alts |-> {<<"b", "u", "n", "d", "l", "e">>}, anchored |-> FALSE],
      [alts |-> {<<"j", "a", "v", "a">>}, anchored |-> TRUE],
      [alts |-> {<<"j", "a", "v", "a", "c">>}, anchored |-> FALSE],
      [alts |-> {<<"g", "r", "a", "d", "l", "e">>}, anchored |-> FALSE],
      [alts |-> {<<"m", "a", "v", "e", "n">>}, anchored |-> FALSE],
      [alts |-> {<<"m", "v", "n">>}, anchored |-> FALSE],
      [alts |-> {<<"g", "o">>}, anchored |-> TRUE],
      [alts |-> {<<"c", "a", "r", "g", "o">>}, anchored |-> FALSE],
      [alts |-> {<<"r", "u", "s", "t", "c">>}, anchored |-> FALSE],
      [alts |-> {<<"r", "u", "s", "t", "u", "p">>}, anchored |-> FALSE],
      [alts |-> {<<"g", "i", "t">>}, anchored |-> TRUE],
      [alts |-> {<<"g", "i", "t", "-">>}, anchored |-> FALSE],
      [alts |-> {<<"g", "h">>}, anchored |-> TRUE],
      [alts |-> {<<"d", "o", "c", "k", "e", "r">>}, anchored |-> FALSE],
      [alts |-> {<<"k", "u", "b", "e", "c", "t", "l">>}, anchored |-> FALSE],
      [alts |-> {<<"h", "e", "l", "m">>}, anchored |-> FALSE],
      [alts |-> {<<"t", "e", "r", "r", "a", "f", "o", "r", "m">>}, anchored |-> FALSE],
      [alts |-> {<<"a", "w", "s">>}, anchored |-> TRUE],
      [alts |-> {<<"g", "c", "l", "o", "u", "d">>}, anchored |-> FALSE],
      [alts |-> {<<"a", "z">>}, anchored |-> TRUE],
      [alts |-> {<<"p", "o", "s", "t", "g", "r", "e", "s">>}, anchored |-> FALSE],
      [alts |-> {<<"m", "y", "s", "q", "l">>}, anchored |-> FALSE],
      [alts |-> {<<"r", "e", "d", "i", "s">>}, anchored |-> FALSE],
      [alts |-> {<<"m", "o", "n", "g", "o">>}, anchored |-> FALSE],
      [alts |-> {<<"n", "g", "i", "n", "x">>}, anchored |-> FALSE],
      [alts |-> {<<"a", "p", "a", "c", "h", "e">>}, anchored |-> FALSE],
      [alts |-> {<<"e", "l", "e", "c", "t", "r", "o", "n">>}, anchored |-> FALSE],
      [alts |-> {<<"c", "l", "a", "u", "d", "e">>}, anchored |-> FALSE],
      [alts |-> {<<"c", "o", "p", "i", "l", "o", "t">>}, anchored |-> FALSE],
      [alts |-> {<<"t", "y", "p", "e", "s", "c", "r", "i", "p", "t", "-", "l", "a", "n", "g", "u", "a", "g", "e">>}, anchored |-> FALSE],
      [alts |-> {<<"p", "y", "l", "s", "p">>}, anchored |-> FALSE],
      [alts |-> {<<"g", "o", "p", "l", "s">>}, anchored |-> FALSE],
      [alts |-> {<<"r", "u", "s", "t", "-", "a", "n", "a", "l", "y", "z", "e", "r">>}, anchored |-> FALSE]
     >>,
   terminal |->
     <<
      [alts |-> {<<"T", "e", "r", "m", "i", "n", "a", "l">>}, anchored |-> TRUE],
      [alts |-> {<<"i", "T", "e", "r", "m">>}, anchored |-> FALSE],
      [alts |-> {<<"H", "y", "p", "e", "r">>}, anchored |-> FALSE],
      [alts |-> {<<"A", "l", "a", "c", "r", "i", "t", "t", "y">>}, anchored |-> FALSE],
      [alts |-> {<<"k", "i", "t", "t", "y">>}, anchored |-> FALSE],
      [alts |-> {<<"W", "e", "z", "T", "e", "r", "m">>}, anchored |-> FALSE],
      [alts |-> {<<"W", "a", "r", "p">>}, anchored |-> FALSE],
      [alts |-> {<<"T", "a", "b", "b", "y">>}, anchored |-> FALSE],
      [alts |-> {<<"T", "e", "r", "m", "i", "n", "u", "s">>}, anchored |-> FALSE],
      [alts |-> {<<"z", "s", "h">>}, anchored |-> TRUE],
      [alts |-> {<<"b", "a", "s", "h">>}, anchored |-> TRUE],
      [alts |-> {<<"s", "h">>}, anchored |-> TRUE],
      [alts |-> {<<"f", "i", "s", "h">>}, anchored |-> TRUE],
      [alts |-> {<<"t", "c", "s", "h">>}, anchored |-> TRUE],
      [alts |-> {<<"c", "s", "h">>}, anchored |-> TRUE],
      [alts |-> {<<"s", "s", "h">>}, anchored |-> TRUE],
      [alts |-> {<<"s", "s", "h", "d">>}, anchored |-> FALSE],
      [alts |-> {<<"t", "m", "u", "x">>}, anchored |-> FALSE],
      [alts |-> {<<"s", "c", "r", "e", "e", "n">>}, anchored |-> FALSE],
      [alts |-> {<<"m", "o", "s", "h">>}, anchored |-> FALSE]
     >>
  ]

KILLABLE_PATTERNS ==
  [
   browser |->
     <<
      [alts |-> {<<"C", "h", "r", "o", "m", "e", " ", "H", "e", "l", "p", "e", "r">>}, anchored |-> FALSE],
      [alts |-> {<<"G", "o", "o", "g", "l", "e", " ", "C", "h", "r", "o", "m", "e", " ", "H", "e", "l", "p", "e", "r">>}, anchored |-> FALSE],
      [alts |-> {<<"S", "a", "f", "a", "r", "i", " ", "W", "e", "b", " ", "C", "o", "n", "t", "e", "n", "t">>}, anchored |-> FALSE],
      [alts |-> {<<"S", "a", "f", "a", "r", "i", " ", "N", "e", "t", "w", "o", "r", "k", "i", "n", "g">>}, anchored |-> FALSE],
      [alts |-> {<<"F", "i", "r", "e", "f", "o", "x">>}, anchored |-> FALSE],
      [alts |-> {<<"f", "i", "r", "e", "f", "o", "x", "-", "b", "i", "n">>}, anchored |-> FALSE],
      [alts |-> {<<"B", "r", "a", "v", "e", " ", "B", "r", "o", "w", "s", "e", "r">>}, anchored |-> FALSE],
      [alts |-> {<<"M", "i", "c", "r", "o", "s", "o", "f", "t", " ", "E", "d", "g", "e">>}, anchored |-> FALSE],
      [alts |-> {<<"A", "r", "c", " ", "H", "e", "l", "p", "e", "r">>}, anchored |-> FALSE],
      [alts |-> {<<"O", "p", "e", "r", "a">>}, anchored |-> FALSE]
     >>,
   communication |->
     <<
      [alts |-> {<<"S", "l", "a", "c", "k", " ", "H", "e", "l", "p", "e", "r">>}, anchored |-> FALSE],
      [alts |-> {<<"D", "i", "s", "c", "o", "r", "d", " ", "H", "e", "l", "p", "e", "r">>}, anchored |-> FALSE],
      [alts |-> {<<"T", "e", "a", "m", "s">>}, anchored |-> FALSE],
      [alts |-> {<<"W", "h", "a", "t", "s", "A", "p", "p">>}, anchored |-> FALSE],
      [alts |-> {<<"T", "e", "l", "e", "g", "r", "a", "m">>}, anchored |-> FALSE],
      [alts |-> {<<"S", "i", "g", "n", "a", "l">>}, anchored |-> FALSE],
      [alts |-> {<<"M", "e", "s", "s", "a", "g", "e", "s">>}, anchored |-> FALSE],
      [alts |-> {<<"Z", "o", "o", "m">>}, anchored |-> FALSE],
      [alts |-> {<<"S", "k", "y", "p", "e">>}, anchored |-> FALSE],
      [alts |-> {<<"F", "a", "c", "e", "T", "i", "m", "e">>}, anchored |-> FALSE]
     >>,
   cloud_sync |->
     <<
      [alts |-> {<<"D", "r", "o", "p", "b", "o", "x">>}, anchored |-> FALSE],
      [alts |-> {<<"G", "o", "o", "g", "l", "e", " ", "D", "r", "i", "v", "e">>}, anchored |-> FALSE],
      [alts |-> {<<"O", "n", "e", "D", "r", "i", "v", "e">>}, anchored |-> FALSE],
      [alts |-> {<<"i", "C", "l", "o", "u", "d">>}, anchored |-> FALSE],
      [alts |-> {<<"B", "o", "x", " ", "S", "y", "n", "c">>}, anchored |-> FALSE],
      [alts |-> {<<"S", "y", "n", "c">>}, anchored |-> FALSE]
     >>,
   media |->
     <<
      [alts |-> {<<"S", "p", "o", "t", "i", "f", "y", " ", "H", "e", "l", "p", "e", "r">>}, anchored |-> FALSE],
      [alts |-> {<<"M", "u", "s", "i", "c">>}, anchored |-> TRUE],
      [alts |-> {<<"i", "T", "u", "n", "e", "s">>}, anchored |-> FALSE],
      [alts |-> {<<"P", "h", "o", "t", "o", "s">>}, anchored |-> TRUE],
      [alts |-> {<<"P", "r", "e", "v", "i", "e", "w">>}, anchored |-> TRUE],
      [alts |-> {<<"Q", "u", "i", "c", "k", "T", "i", "m", "e">>}, anchored |-> FALSE],
      [alts |-> {<<"V", "L", "C">>}, anchored |-> FALSE],
      [alts |-> {<<"I", "I", "N", "A">>}, anchored |-> FALSE]
     >>,
   background |->
     <<
      [alts |-> {<<"m", "d", "s", "_", "s", "t", "o", "r", "e", "s">>}, anchored |-> FALSE],
      [alts |-> {<<"p", "h", "o", "t", "o", "a", "n", "a", "l", "y", "s", "i", "s", "d">>}, anchored |-> FALSE],
      [alts |-> {<<"p", "h", "o", "t", "o", "l", "i", "b", "r", "a", "r", "y", "d">>}, anchored |-> FALSE],
      [alts |-> {<<"s", "u", "g", "g", "e", "s", "t", "d">>}, anchored |-> FALSE],
      [alts |-> {<<"c", "o", "m", ".", "a", "p", "p", "l", "e", ".", "p", "h", "o", "t", "o", "s">>}, anchored |-> FALSE],
      [alts |-> {<<"m", "e", "d", "i", "a", "a", "n", "a", "l", "y", "s", "i", "s", "d">>}, anchored |-> FALSE],
      [alts |-> {<<"b", "i", "r", "d">>}, anchored |-> TRUE],
      [alts |-> {<<"c", "o", "m", "m", "e", "r", "c", "e">>}, anchored |-> FALSE],
      [alts |-> {<<"R", "e", "p", "o", "r", "t", "C", "r", "a", "s", "h">>}, anchored |-> FALSE],
      [alts |-> {<<"s", "p", "i", "n", "d", "u", "m", "p">>}, anchored |-> FALSE],
      [alts |-> {<<"s", "y", "s", "d", "i", "a", "g", "n", "o", "s", "e">>}, anchored |-> FALSE],
      [alts |-> {<<"t", "a", "i", "l", "s", "p", "i", "n", "d">>}, anchored |-> FALSE],
      [alts |-> {<<"a", "n", "a", "l", "y", "t", "i", "c", "s", "d">>}, anchored |-> FALSE],
      [alts |-> {<<"d", "i", "a", "g", "n", "o", "s", "t", "i", "c", "d">>}, anchored |-> FALSE]
     >>
  ]

\* re.IGNORECASE: both the pattern and the text are compared in lower case.
LowerChar(c) ==
  CASE c = "A" -> "a" []
         c = "B" -> "b" []
         c = "C" -> "c" []
         c = "D" -> "d" []
         c = "E" -> "e" []
         c = "F" -> "f" []
         c = "G" -> "g" []
         c = "H" -> "h" []
         c = "I" -> "i" []
         c = "J" -> "j" []
         c = "K" -> "k" []
         c = "L" -> "l" []
         c = "M" -> "m" []
         c = "N" -> "n" []
         c = "O" -> "o" []
         c = "P" -> "p" []
         c = "Q" -> "q" []
         c = "R" -> "r" []
         c = "S" -> "s" []
         c = "T" -> "t" []
         c = "U" -> "u" []
         c = "V" -> "v" []
         c = "W" -> "w" []
         c = "X" -> "x" []
         c = "Y" -> "y" []
         c = "Z" -> "z"
    [] OTHER -> c

Lower(s) == [i \in 1..Len(s) |-> LowerChar(s[i])]

\* {**PROTECTED_PATTERNS, **KILLABLE_PATTERNS} compiled per category.
_compiled_patterns ==
  [c \in ProcessCategory \ {UNKNOWN} |->
     IF c \in DOMAIN PROTECTED_PATTERNS THEN PROTECTED_PATTERNS[c]
     ELSE KILLABLE_PATTERNS[c]]

\* The literal lit occurs in text at offset i (1-based).
OccursAt(lit, text, i) ==
  /\ i + Len(lit) - 1 <= Len(text)
  /\ \A j \in 1..Len(lit) : LowerChar(lit[j]) = LowerChar(text[i + j - 1])

\* pattern.search(search_text): a substring match; with `$` the match has to
\* end at the end of the text.
PatternSearch(pattern, text) ==
  \E lit \in pattern.alts :
    IF pattern.anchored
    THEN Len(lit) <= Len(text) /\ OccursAt(lit, text, Len(text) - Len(lit) + 1)
    ELSE \E i \in 1..(Len(text) - Len(lit) + 1) : OccursAt(lit, text, i)

CategoryMatches(category, text) ==
  \E k \in 1..Len(_compiled_patterns[category]) :
    PatternSearch(_compiled_patterns[category][k], text)

CategoryOrder_killable_first ==
  <<BROWSER, COMMUNICATION, CLOUD_SYNC, MEDIA, BACKGROUND,
    SYSTEM_CRITICAL, DEVELOPMENT, TERMINAL>>

\* The order in which _categorize_process tries the categories.
CategoryOrder ==
  <<SYSTEM_CRITICAL, DEVELOPMENT, TERMINAL,
    BROWSER, COMMUNICATION, CLOUD_SYNC, MEDIA, BACKGROUND>>

RECURSIVE FirstMatch(_, _)
FirstMatch(k, text) ==
  IF k > Len(CategoryOrder) THEN UNKNOWN
  ELSE IF CategoryMatches(CategoryOrder[k], text) THEN CategoryOrder[k]
  ELSE FirstMatch(k + 1, text)

(***************************************************************************)
(* Process names and command lines used by the scenarios, as the character  *)
(* sequences the patterns are searched in.                                 *)
(***************************************************************************)
T ==
  [launchd |-> <<"l", "a", "u", "n", "c", "h", "d">>,
   sbin_launchd |-> <<"/", "s", "b", "i", "n", "/", "l", "a", "u", "n", "c", "h", "d">>,
   Python |-> <<"P", "y", "t", "h", "o", "n">>,
   menubar |-> <<"m", "e", "n", "u", "b", "a", "r">>,
   ChromeHelper |-> <<"G", "o", "o", "g", "l", "e", " ", "C", "h", "r", "o", "m", "e", " ", "H", "e", "l", "p", "e", "r">>,
   SlackHelper |-> <<"S", "l", "a", "c", "k", " ", "H", "e", "l", "p", "e", "r">>,
   mds_stores |-> <<"m", "d", "s", "_", "s", "t", "o", "r", "e", "s">>,
   zsh |-> <<"z", "s", "h">>,
   dash_zsh |-> <<"-", "z", "s", "h">>,
   node |-> <<"n", "o", "d", "e">>,
   worker |-> <<"w", "o", "r", "k", "e", "r">>,
   Finder |-> <<"F", "i", "n", "d", "e", "r">>,
   Firefox |-> <<"F", "i", "r", "e", "f", "o", "x">>,
   vim |-> <<"v", "i", "m">>,
   SpotifyHelper |-> <<"S", "p", "o", "t", "i", "f", "y", " ", "H", "e", "l", "p", "e", "r">>,
   Dropbox |-> <<"D", "r", "o", "p", "b", "o", "x">>,
   renderer |-> <<"r", "e", "n", "d", "e", "r", "e", "r">>,
   empty |-> <<>>]

ScenarioNames ==
  {T.launchd, T.Python, T.ChromeHelper, T.SlackHelper, T.mds_stores, T.zsh,
   T.node, T.worker, T.Finder, T.Firefox, T.SpotifyHelper, T.Dropbox,
   T.renderer}

ScenarioCmdlines ==
  {T.empty, T.sbin_launchd, T.menubar, T.dash_zsh, T.node, T.vim}

\* search_text = f"{name} {cmdline}"
SearchText(name, cmdline) == name \o <<" ">> \o cmdline

\* The categories of the scenario texts, computed once.
CategoryMemo ==
  {<<x[1], x[2], FirstMatch(1, SearchText(x[1], x[2]))>> :
     x \in ScenarioNames \X ScenarioCmdlines}

_categorize_process(name, cmdline) ==
  IF \E m \in CategoryMemo : m[1] = name /\ m[2] = cmdline
  THEN (CHOOSE m \in CategoryMemo : m[1] = name /\ m[2] = cmdline)[3]
  ELSE FirstMatch(1, SearchText(name, cmdline))

(***************************************************************************)
(* Bounds of the model.                                                    *)
(***************************************************************************)
NumPids == 6

MaxWorkers == 1

Pids == 1..NumPids

(***************************************************************************)
(* State.                                                                  *)
(*  procs            the operating system's process table as psutil shows  *)
(*                   it: per pid the status and the readings of a process  *)
(*  now              time.time()                                           *)
(*  current_pid, parent_pids                  ProcessScorer.__init__       *)
(*  auto_clean_mode, last_clean_time          EnhancedCPUMonitorApp state  *)
(*  main             the run-loop thread: which callback it is inside and  *)
(*                   the readings update_status has sampled                *)
(*  main_pass        the cleanup pass running inside a menu callback       *)
(*  workers          the bag of cleanup passes running on daemon threads   *)
(*  info, listing    results of analyze_process / of the ranked queries    *)
(*  disk             the files and target directories DiskCleaner sees,    *)
(*                   its session totals, and its last call and result      *)
(*  last_status      self.last_status: <<>> for None, else the one status  *)
(*  tree             the last call of kill_process_tree and what it did    *)
(***************************************************************************)
VARIABLES procs, now, current_pid, parent_pids,
          auto_clean_mode, last_clean_time, main, main_pass, workers,
          info, listing, disk, last_status, tree

vars == <<procs, now, current_pid, parent_pids, auto_clean_mode,
          last_clean_time, main, main_pass, workers, info, listing, disk, last_status, tree>>

(***************************************************************************)
(* ProcessScorer (modules/process_scorer.py)                               *)
(***************************************************************************)
\* A process is visible to psutil while it is running or a zombie.
Exists(table, pid) == pid \in DOMAIN table /\ table[pid].status # "gone"

\* proc.parent(): the parent process, None at the root of the tree.
ParentOf(table, pid) ==
  IF Exists(table, pid) /\ Exists(table, table[pid].ppid)
  THEN table[pid].ppid ELSE NoPid

RECURSIVE WalkParents(_, _, _)
WalkParents(table, pid, parents) ==
  IF pid = NoPid \/ pid \in parents THEN parents
  ELSE WalkParents(table, ParentOf(table, pid), parents \cup {pid})

\* parents = {current pid and every pid reached through proc.parent()}
_get_parent_pids(table, pid) == WalkParents(table, pid, {})

_is_protected_no_children(parents, pid, category, children_count, has_open_files) ==
  \/ pid \in parents
  \/ category \in {SYSTEM_CRITICAL, DEVELOPMENT, TERMINAL}
  \/ has_open_files

_is_protected_ignoring_category(parents, pid, category, children_count, has_open_files) ==
  \/ pid \in parents
  \/ children_count > 0
  \/ has_open_files

_is_protected(parents, pid, category, children_count, has_open_files) ==
  IF pid \in parents THEN TRUE
  ELSE IF category \in {SYSTEM_CRITICAL, DEVELOPMENT, TERMINAL} THEN TRUE
  ELSE IF children_count > 0 THEN TRUE
  ELSE IF has_open_files THEN TRUE
  ELSE FALSE

\* proc.open_files() of another user's process raises AccessDenied, which
\* _check_open_files_in_home turns into False.
_check_open_files_in_home(proc) ==
  IF proc.owner = "other" THEN FALSE ELSE proc.open_home

WEIGHTS == [cpu |-> 40, memory |-> 30, fds |-> 10, age |-> 10, category |-> 10]

CATEGORY_PENALTIES ==
  [c \in ProcessCategory |->
     CASE c = SYSTEM_CRITICAL -> -1000
       [] c = DEVELOPMENT -> -500
       [] c = TERMINAL -> -500
       [] c = BROWSER -> 20
       [] c = COMMUNICATION -> 15
       [] c = CLOUD_SYNC -> 25
       [] c = MEDIA -> 10
       [] c = BACKGROUND -> 30
       [] c = UNKNOWN -> 0]

\* The sentinel -1000.0, in hundredths.
ProtectedScore == -100000

\* n / d rounded to the nearest integer, ties to even: round(x, 2) on a score
\* counted in hundredths and the ".0f" format of a percentage.
RoundHalfEven(n, d) ==
  LET q == n \div d
      r == n % d
  IN  IF 2 * r < d THEN q
      ELSE IF 2 * r > d THEN q + 1
      ELSE IF q % 2 = 0 THEN q ELSE q + 1

WeightedScore_wrapping_cpu(cpu, memory, num_fds, age_seconds, category) ==
  LET cpu_score == cpu % 1001
      memory_score == Min(memory, 100)
      fd_score == Min(num_fds, 500)
      age_score == Max(0, 36000 - 10 * age_seconds)
      category_modifier == CATEGORY_PENALTIES[category]
  IN  RoundHalfEven(
        72 * ((cpu_score * WEIGHTS.cpu) \div 10
              + memory_score * WEIGHTS.memory
              + (fd_score * WEIGHTS.fds) \div 10
              + category_modifier * WEIGHTS.category)
        + age_score, 72)

\* Lines 260-281.  cpu, memory are in tenths of a percent, age_seconds in
\* seconds and the result in hundredths, where the five weighted terms are
\*   min(cpu, 100) * 0.40              = Min(cpu, 1000) * 40 / 10
\*   min(memory * 10, 100) * 0.30      = Min(memory, 100) * 30
\*   min(num_fds / 10, 50) * 0.10      = Min(num_fds, 500) * 10 / 10
\*   max(0, 50 - age / 72) * 0.10      = Max(0, 36000 - 10 * age) / 72
\*   category_modifier * 0.10          = category_modifier * 10
\* The sum is taken over the common denominator 72 and then rounded.
WeightedScore(cpu, memory, num_fds, age_seconds, category) ==
  LET cpu_score == Min(cpu, 1000)
      memory_score == Min(memory, 100)
      fd_score == Min(num_fds, 500)
      age_score == Max(0, 36000 - 10 * age_seconds)
      category_modifier == CATEGORY_PENALTIES[category]
  IN  RoundHalfEven(
        72 * ((cpu_score * WEIGHTS.cpu) \div 10
              + memory_score * WEIGHTS.memory
              + (fd_score * WEIGHTS.fds) \div 10
              + category_modifier * WEIGHTS.category)
        + age_score, 72)

_calculate_score_no_sentinel(cpu, memory, num_fds, age_seconds, category, is_protected) ==
  WeightedScore(cpu, memory, num_fds, age_seconds, category)

_calculate_score(cpu, memory, num_fds, age_seconds, category, is_protected) ==
  IF is_protected THEN ProtectedScore
  ELSE WeightedScore(cpu, memory, num_fds, age_seconds, category)

\* cmdline[:200]
Truncate(s, n) == SubSeq(s, 1, Min(Len(s), n))

\* len(proc.children()): the direct children psutil lists.
ChildrenCount(table, pid) ==
  Cardinality({q \in DOMAIN table : Exists(table, q) /\ table[q].ppid = pid})

\* analyze_process(proc) at time t: None when the process has vanished or is
\* a zombie (NoSuchProcess, ZombieProcess); the readings psutil refuses for
\* another user's process fall back to "", 0 and False.
analyze_process(table, parents, t, pid) ==
  IF ~ (pid \in DOMAIN table /\ table[pid].status = "running") THEN None
  ELSE
    LET proc == table[pid]
        name == proc.name
        cmdline == IF proc.owner = "other" THEN <<>> ELSE proc.cmdline
        cpu_percent == proc.cpu
        memory_percent == proc.mem
        num_fds == IF proc.owner = "other" THEN 0 ELSE proc.fds
        create_time == proc.create_time
        age_seconds == t - create_time
        children_count == ChildrenCount(table, pid)
        has_open_files == _check_open_files_in_home(proc)
        category == _categorize_process(name, cmdline)
        is_protected == _is_protected(parents, pid, category, children_count,
                                      has_open_files)
        kill_score == _calculate_score(cpu_percent, memory_percent, num_fds,
                                       age_seconds, category, is_protected)
    IN  [pid |-> pid, name |-> name, cpu_percent |-> cpu_percent,
         memory_percent |-> memory_percent, num_fds |-> num_fds,
         create_time |-> create_time, category |-> category,
         is_protected |-> is_protected, kill_score |-> kill_score,
         children_count |-> children_count,
         has_open_files_in_home |-> has_open_files,
         cmdline |-> Truncate(cmdline, 200)]

\* sorted(processes, key=kill_score, reverse=True): stable, so an element is
\* placed behind every element whose score is at least its own.
RECURSIVE InsertByScore(_, _)
InsertByScore_before_equals(x, sorted) ==
  IF sorted = <<>> THEN <<x>>
  ELSE IF Head(sorted).kill_score > x.kill_score
       THEN <<Head(sorted)>> \o InsertByScore(x, Tail(sorted))
       ELSE <<x>> \o sorted

InsertByScore(x, sorted) ==
  IF sorted = <<>> THEN <<x>>
  ELSE IF Head(sorted).kill_score >= x.kill_score
       THEN <<Head(sorted)>> \o InsertByScore(x, Tail(sorted))
       ELSE <<x>> \o sorted

RECURSIVE SortByScoreDesc(_, _)
SortByScoreDesc(processes, sorted) ==
  IF processes = <<>> THEN sorted
  ELSE SortByScoreDesc(Tail(processes), InsertByScore(Head(processes), sorted))

\* The loop over psutil.process_iter(), which yields the pids in ascending
\* order: the analysable processes at or above the CPU floor.
RECURSIVE CollectProcesses(_, _, _, _, _)
CollectProcesses(table, parents, t, min_cpu, pid) ==
  IF pid > NumPids THEN <<>>
  ELSE LET i == analyze_process(table, parents, t, pid)
           rest == CollectProcesses(table, parents, t, min_cpu, pid + 1)
       IN  IF i # None /\ i.cpu_percent >= min_cpu THEN <<i>> \o rest ELSE rest

get_all_processes(table, parents, t, min_cpu) ==
  SortByScoreDesc(CollectProcesses(table, parents, t, min_cpu, 1), <<>>)

get_killable_processes_ignoring_protection(table, parents, t, min_score, min_cpu) ==
  LET all_procs == get_all_processes(table, parents, t, min_cpu)
      keep(p) == p.kill_score >= min_score
  IN  SelectSeq(all_procs, keep)

\* min_score in hundredths, min_cpu in tenths of a percent.
get_killable_processes(table, parents, t, min_score, min_cpu) ==
  LET all_procs == get_all_processes(table, parents, t, min_cpu)
      keep(p) == ~ p.is_protected /\ p.kill_score >= min_score
  IN  SelectSeq(all_procs, keep)

get_top_resource_hogs(table, parents, t, limit) ==
  LET all_procs == get_all_processes(table, parents, t, 10)
  IN  SubSeq(all_procs, 1, Min(limit, Len(all_procs)))

StartTime == 10000000

Proc(status, name, cmdline, cpu, mem, fds, create_time, ppid, open_home, owner) ==
  [status |-> status, name |-> name, cmdline |-> cmdline, cpu |-> cpu,
   mem |-> mem, fds |-> fds, create_time |-> create_time, ppid |-> ppid,
   open_home |-> open_home, owner |-> owner]

\* A pid no process has.
NoProc == Proc("gone", T.empty, T.empty, 0, 0, 0, 0, 0, FALSE, "user")

(***************************************************************************)
(* DiskCleaner (modules/disk_cleaner.py)                                   *)
(***************************************************************************)
\* _initialize_targets() for the home directory /Users/u, in registry order.
cleanup_targets ==
  <<
    [path |-> <<"/", "U", "s", "e", "r", "s", "/", "u", "/", "L", "i", "b", "r", "a", "r", "y", "/", "C", "a", "c", "h", "e", "s">>,
     category |-> "user_cache", safe_to_delete |-> TRUE, requires_sudo |-> FALSE,
     min_age_days |-> 0, exclude_patterns |-> <<<<"c", "o", "m", ".", "a", "p", "p", "l", "e", ".", "*">>, <<"C", "l", "o", "u", "d", "K", "i", "t">>, <<"c", "o", "m", ".", "s", "p", "o", "t", "i", "f", "y", ".", "*">>>>],
    [path |-> <<"/", "U", "s", "e", "r", "s", "/", "u", "/", "L", "i", "b", "r", "a", "r", "y", "/", "C", "a", "c", "h", "e", "s", "/", "G", "o", "o", "g", "l", "e", "/", "C", "h", "r", "o", "m", "e">>,
     category |-> "browser_cache", safe_to_delete |-> TRUE, requires_sudo |-> FALSE,
     min_age_days |-> 0, exclude_patterns |-> <<>>],
    [path |-> <<"/", "U", "s", "e", "r", "s", "/", "u", "/", "L", "i", "b", "r", "a", "r", "y", "/", "C", "a", "c", "h", "e", "s", "/", "c", "o", "m", ".", "g", "o", "o", "g", "l", "e", ".", "C", "h", "r", "o", "m", "e">>,
     category |-> "browser_cache", safe_to_delete |-> TRUE, requires_sudo |-> FALSE,
     min_age_days |-> 0, exclude_patterns |-> <<>>],
    [path |-> <<"/", "U", "s", "e", "r", "s", "/", "u", "/", "L", "i", "b", "r", "a", "r", "y", "/", "C", "a", "c", "h", "e", "s", "/", "F", "i", "r", "e", "f", "o", "x">>,
     category |-> "browser_cache", safe_to_delete |-> TRUE, requires_sudo |-> FALSE,
     min_age_days |-> 0, exclude_patterns |-> <<>>],
    [path |-> <<"/", "U", "s", "e", "r", "s", "/", "u", "/", "L", "i", "b", "r", "a", "r", "y", "/", "C", "a", "c", "h", "e", "s", "/", "c", "o", "m", ".", "a", "p", "p", "l", "e", ".", "S", "a", "f", "a", "r", "i">>,
     category |-> "browser_cache", safe_to_delete |-> TRUE, requires_sudo |-> FALSE,
     min_age_days |-> 0, exclude_patterns |-> <<>>],
    [path |-> <<"/", "U", "s", "e", "r", "s", "/", "u", "/", "L", "i", "b", "r", "a", "r", "y", "/", "S", "a", "f", "a", "r", "i", "/", "L", "o", "c", "a", "l", "S", "t", "o", "r", "a", "g", "e">>,
     category |-> "browser_cache", safe_to_delete |-> TRUE, requires_sudo |-> FALSE,
     min_age_days |-> 7, exclude_patterns |-> <<>>],
    [path |-> <<"/", "U", "s", "e", "r", "s", "/", "u", "/", ".", "n", "p", "m", "/", "_", "c", "a", "c", "a", "c", "h", "e">>,
     category |-> "dev_cache", safe_to_delete |-> TRUE, requires_sudo |-> FALSE,
     min_age_days |-> 0, exclude_patterns |-> <<>>],
    [path |-> <<"/", "U", "s", "e", "r", "s", "/", "u", "/", ".", "y", "a", "r", "n", "/", "c", "a", "c", "h", "e">>,
     category |-> "dev_cache", safe_to_delete |-> TRUE, requires_sudo |-> FALSE,
     min_age_days |-> 0, exclude_patterns |-> <<>>],
    [path |-> <<"/", "U", "s", "e", "r", "s", "/", "u", "/", ".", "p", "n", "p", "m", "-", "s", "t", "o", "r", "e">>,
     category |-> "dev_cache", safe_to_delete |-> TRUE, requires_sudo |-> FALSE,
     min_age_days |-> 30, exclude_patterns |-> <<>>],
    [path |-> <<"/", "U", "s", "e", "r", "s", "/", "u", "/", ".", "c", "a", "c", "h", "e", "/", "p", "i", "p">>,
     category |-> "dev_cache", safe_to_delete |-> TRUE, requires_sudo |-> FALSE,
     min_age_days |-> 0, exclude_patterns |-> <<>>],
    [path |-> <<"/", "U", "s", "e", "r", "s", "/", "u", "/", ".", "c", "a", "r", "g", "o", "/", "r", "e", "g", "i", "s", "t", "r", "y", "/", "c", "a", "c", "h", "e">>,
     category |-> "dev_cache", safe_to_delete |-> TRUE, requires_sudo |-> FALSE,
     min_age_days |-> 0, exclude_patterns |-> <<>>],
    [path |-> <<"/", "U", "s", "e", "r", "s", "/", "u", "/", ".", "g", "r", "a", "d", "l", "e", "/", "c", "a", "c", "h", "e", "s">>,
     category |-> "dev_cache", safe_to_delete |-> TRUE, requires_sudo |-> FALSE,
     min_age_days |-> 0, exclude_patterns |-> <<>>],
    [path |-> <<"/", "U", "s", "e", "r", "s", "/", "u", "/", ".", "m", "2", "/", "r", "e", "p", "o", "s", "i", "t", "o", "r", "y">>,
     category |-> "dev_cache", safe_to_delete |-> TRUE, requires_sudo |-> FALSE,
     min_age_days |-> 60, exclude_patterns |-> <<>>],
    [path |-> <<"/", "U", "s", "e", "r", "s", "/", "u", "/", "g", "o", "/", "p", "k", "g", "/", "m", "o", "d", "/", "c", "a", "c", "h", "e">>,
     category |-> "dev_cache", safe_to_delete |-> TRUE, requires_sudo |-> FALSE,
     min_age_days |-> 0, exclude_patterns |-> <<>>],
    [path |-> <<"/", "U", "s", "e", "r", "s", "/", "u", "/", ".", "c", "a", "c", "h", "e", "/", "h", "o", "m", "e", "b", "r", "e", "w">>,
     category |-> "dev_cache", safe_to_delete |-> TRUE, requires_sudo |-> FALSE,
     min_age_days |-> 0, exclude_patterns |-> <<>>],
    [path |-> <<"/", "u", "s", "r", "/", "l", "o", "c", "a", "l", "/", "H", "o", "m", "e", "b", "r", "e", "w", "/", "L", "i", "b", "r", "a", "r", "y", "/", "T", "a", "p", "s">>,
     category |-> "dev_cache", safe_to_delete |-> FALSE, requires_sudo |-> FALSE,
     min_age_days |-> 0, exclude_patterns |-> <<>>],
    [path |-> <<"/", "U", "s", "e", "r", "s", "/", "u", "/", "L", "i", "b", "r", "a", "r", "y", "/", "L", "o", "g", "s">>,
     category |-> "logs", safe_to_delete |-> TRUE, requires_sudo |-> FALSE,
     min_age_days |-> 7, exclude_patterns |-> <<<<"D", "i", "a", "g", "n", "o", "s", "t", "i", "c", "R", "e", "p", "o", "r", "t", "s">>>>],
    [path |-> <<"/", "v", "a", "r", "/", "l", "o", "g">>,
     category |-> "logs", safe_to_delete |-> TRUE, requires_sudo |-> TRUE,
     min_age_days |-> 14, exclude_patterns |-> <<>>],
    [path |-> <<"/", "U", "s", "e", "r", "s", "/", "u", "/", "L", "i", "b", "r", "a", "r", "y", "/", "L", "o", "g", "s", "/", "D", "i", "a", "g", "n", "o", "s", "t", "i", "c", "R", "e", "p", "o", "r", "t", "s">>,
     category |-> "logs", safe_to_delete |-> TRUE, requires_sudo |-> FALSE,
     min_age_days |-> 30, exclude_patterns |-> <<>>],
    [path |-> <<"/", "t", "m", "p">>,
     category |-> "temp_files", safe_to_delete |-> TRUE, requires_sudo |-> FALSE,
     min_age_days |-> 1, exclude_patterns |-> <<>>],
    [path |-> <<"/", "p", "r", "i", "v", "a", "t", "e", "/", "v", "a", "r", "/", "f", "o", "l", "d", "e", "r", "s">>,
     category |-> "temp_files", safe_to_delete |-> TRUE, requires_sudo |-> TRUE,
     min_age_days |-> 3, exclude_patterns |-> <<>>],
    [path |-> <<"/", "U", "s", "e", "r", "s", "/", "u", "/", "L", "i", "b", "r", "a", "r", "y", "/", "A", "p", "p", "l", "i", "c", "a", "t", "i", "o", "n", " ", "S", "u", "p", "p", "o", "r", "t", "/", "C", "r", "a", "s", "h", "R", "e", "p", "o", "r", "t", "e", "r">>,
     category |-> "temp_files", safe_to_delete |-> TRUE, requires_sudo |-> FALSE,
     min_age_days |-> 7, exclude_patterns |-> <<>>],
    [path |-> <<"/", "U", "s", "e", "r", "s", "/", "u", "/", "L", "i", "b", "r", "a", "r", "y", "/", "D", "e", "v", "e", "l", "o", "p", "e", "r", "/", "X", "c", "o", "d", "e", "/", "D", "e", "r", "i", "v", "e", "d", "D", "a", "t", "a">>,
     category |-> "xcode", safe_to_delete |-> TRUE, requires_sudo |-> FALSE,
     min_age_days |-> 0, exclude_patterns |-> <<>>],
    [path |-> <<"/", "U", "s", "e", "r", "s", "/", "u", "/", "L", "i", "b", "r", "a", "r", "y", "/", "D", "e", "v", "e", "l", "o", "p", "e", "r", "/", "X", "c", "o", "d", "e", "/", "A", "r", "c", "h", "i", "v", "e", "s">>,
     category |-> "xcode", safe_to_delete |-> TRUE, requires_sudo |-> FALSE,
     min_age_days |-> 30, exclude_patterns |-> <<>>],
    [path |-> <<"/", "U", "s", "e", "r", "s", "/", "u", "/", "L", "i", "b", "r", "a", "r", "y", "/", "D", "e", "v", "e", "l", "o", "p", "e", "r", "/", "X", "c", "o", "d", "e", "/", "i", "O", "S", " ", "D", "e", "v", "i", "c", "e", "S", "u", "p", "p", "o", "r", "t">>,
     category |-> "ios_device", safe_to_delete |-> TRUE, requires_sudo |-> FALSE,
     min_age_days |-> 60, exclude_patterns |-> <<>>],
    [path |-> <<"/", "U", "s", "e", "r", "s", "/", "u", "/", "L", "i", "b", "r", "a", "r", "y", "/", "D", "e", "v", "e", "l", "o", "p", "e", "r", "/", "C", "o", "r", "e", "S", "i", "m", "u", "l", "a", "t", "o", "r", "/", "C", "a", "c", "h", "e", "s">>,
     category |-> "xcode", safe_to_delete |-> TRUE, requires_sudo |-> FALSE,
     min_age_days |-> 0, exclude_patterns |-> <<>>],
    [path |-> <<"/", "U", "s", "e", "r", "s", "/", "u", "/", ".", "T", "r", "a", "s", "h">>,
     category |-> "trash", safe_to_delete |-> TRUE, requires_sudo |-> FALSE,
     min_age_days |-> 7, exclude_patterns |-> <<>>],
    [path |-> <<"/", "U", "s", "e", "r", "s", "/", "u", "/", "D", "o", "w", "n", "l", "o", "a", "d", "s">>,
     category |-> "downloads", safe_to_delete |-> FALSE, requires_sudo |-> FALSE,
     min_age_days |-> 30, exclude_patterns |-> <<>>],
    [path |-> <<"/", "U", "s", "e", "r", "s", "/", "u", "/", "L", "i", "b", "r", "a", "r", "y", "/", "C", "o", "n", "t", "a", "i", "n", "e", "r", "s", "/", "c", "o", "m", ".", "d", "o", "c", "k", "e", "r", ".", "d", "o", "c", "k", "e", "r", "/", "D", "a", "t", "a", "/", "v", "m", "s">>,
     category |-> "dev_cache", safe_to_delete |-> FALSE, requires_sudo |-> FALSE,
     min_age_days |-> 0, exclude_patterns |-> <<>>],
    [path |-> <<"/", "U", "s", "e", "r", "s", "/", "u", "/", "L", "i", "b", "r", "a", "r", "y", "/", "A", "p", "p", "l", "i", "c", "a", "t", "i", "o", "n", " ", "S", "u", "p", "p", "o", "r", "t", "/", "C", "o", "d", "e", "/", "C", "a", "c", "h", "e">>,
     category |-> "dev_cache", safe_to_delete |-> TRUE, requires_sudo |-> FALSE,
     min_age_days |-> 0, exclude_patterns |-> <<>>],
    [path |-> <<"/", "U", "s", "e", "r", "s", "/", "u", "/", "L", "i", "b", "r", "a", "r", "y", "/", "A", "p", "p", "l", "i", "c", "a", "t", "i", "o", "n", " ", "S", "u", "p", "p", "o", "r", "t", "/", "C", "o", "d", "e", "/", "C", "a", "c", "h", "e", "d", "E", "x", "t", "e", "n", "s", "i", "o", "n", "s">>,
     category |-> "dev_cache", safe_to_delete |-> TRUE, requires_sudo |-> FALSE,
     min_age_days |-> 0, exclude_patterns |-> <<>>],
    [path |-> <<"/", "U", "s", "e", "r", "s", "/", "u", "/", "L", "i", "b", "r", "a", "r", "y", "/", "A", "p", "p", "l", "i", "c", "a", "t", "i", "o", "n", " ", "S", "u", "p", "p", "o", "r", "t", "/", "C", "u", "r", "s", "o", "r", "/", "C", "a", "c", "h", "e">>,
     category |-> "dev_cache", safe_to_delete |-> TRUE, requires_sudo |-> FALSE,
     min_age_days |-> 0, exclude_patterns |-> <<>>],
    [path |-> <<"/", "U", "s", "e", "r", "s", "/", "u", "/", "L", "i", "b", "r", "a", "r", "y", "/", "A", "p", "p", "l", "i", "c", "a", "t", "i", "o", "n", " ", "S", "u", "p", "p", "o", "r", "t", "/", "S", "p", "o", "t", "i", "f", "y", "/", "P", "e", "r", "s", "i", "s", "t", "e", "n", "t", "C", "a", "c", "h", "e">>,
     category |-> "user_cache", safe_to_delete |-> TRUE, requires_sudo |-> FALSE,
     min_age_days |-> 0, exclude_patterns |-> <<>>],
    [path |-> <<"/", "U", "s", "e", "r", "s", "/", "u", "/", "L", "i", "b", "r", "a", "r", "y", "/", "A", "p", "p", "l", "i", "c", "a", "t", "i", "o", "n", " ", "S", "u", "p", "p", "o", "r", "t", "/", "S", "l", "a", "c", "k", "/", "C", "a", "c", "h", "e">>,
     category |-> "user_cache", safe_to_delete |-> TRUE, requires_sudo |-> FALSE,
     min_age_days |-> 0, exclude_patterns |-> <<>>],
    [path |-> <<"/", "U", "s", "e", "r", "s", "/", "u", "/", "L", "i", "b", "r", "a", "r", "y", "/", "A", "p", "p", "l", "i", "c", "a", "t", "i", "o", "n", " ", "S", "u", "p", "p", "o", "r", "t", "/", "S", "l", "a", "c", "k", "/", "S", "e", "r", "v", "i", "c", "e", " ", "W", "o", "r", "k", "e", "r", "/", "C", "a", "c", "h", "e", "S", "t", "o", "r", "a", "g", "e">>,
     category |-> "user_cache", safe_to_delete |-> TRUE, requires_sudo |-> FALSE,
     min_age_days |-> 0, exclude_patterns |-> <<>>],
    [path |-> <<"/", "U", "s", "e", "r", "s", "/", "u", "/", "L", "i", "b", "r", "a", "r", "y", "/", "A", "p", "p", "l", "i", "c", "a", "t", "i", "o", "n", " ", "S", "u", "p", "p", "o", "r", "t", "/", "d", "i", "s", "c", "o", "r", "d", "/", "C", "a", "c", "h", "e">>,
     category |-> "user_cache", safe_to_delete |-> TRUE, requires_sudo |-> FALSE,
     min_age_days |-> 0, exclude_patterns |-> <<>>]
  >>

\* The paths of the files the scenarios put on the disk.
FilePaths ==
  <<
    <<"/", "U", "s", "e", "r", "s", "/", "u", "/", "L", "i", "b", "r", "a", "r", "y", "/", "C", "a", "c", "h", "e", "s", "/", "a", "p", "p", "/", "d", "a", "t", "a", ".", "b", "i", "n">>,
    <<"/", "U", "s", "e", "r", "s", "/", "u", "/", "L", "i", "b", "r", "a", "r", "y", "/", "C", "a", "c", "h", "e", "s", "/", "G", "o", "o", "g", "l", "e", "/", "C", "h", "r", "o", "m", "e", "/", "c", "a", "c", "h", "e", ".", "d", "b">>,
    <<"/", "U", "s", "e", "r", "s", "/", "u", "/", "L", "i", "b", "r", "a", "r", "y", "/", "C", "a", "c", "h", "e", "s", "/", "C", "l", "o", "u", "d", "K", "i", "t", "/", "d", "b">>,
    <<"/", "U", "s", "e", "r", "s", "/", "u", "/", "L", "i", "b", "r", "a", "r", "y", "/", "L", "o", "g", "s", "/", "a", "p", "p", ".", "l", "o", "g">>,
    <<"/", "U", "s", "e", "r", "s", "/", "u", "/", "L", "i", "b", "r", "a", "r", "y", "/", "L", "o", "g", "s", "/", "D", "i", "a", "g", "n", "o", "s", "t", "i", "c", "R", "e", "p", "o", "r", "t", "s", "/", "x", ".", "c", "r", "a", "s", "h">>,
    <<"/", "U", "s", "e", "r", "s", "/", "u", "/", "D", "o", "w", "n", "l", "o", "a", "d", "s", "/", "f", "i", "l", "e", ".", "z", "i", "p">>,
    <<"/", "v", "a", "r", "/", "l", "o", "g", "/", "s", "y", "s", "t", "e", "m", ".", "l", "o", "g">>,
    <<"/", "U", "s", "e", "r", "s", "/", "u", "/", "L", "i", "b", "r", "a", "r", "y", "/", "C", "a", "c", "h", "e", "s", "/", "a", "p", "p", "/", "i", "n", "d", "e", "x", ".", "d", "b">>
  >>

NumFiles == Len(FilePaths)

\* `pattern in str(path)`: the literal occurs somewhere in the text.
Contains(text, lit) ==
  \E i \in 1..(Len(text) - Len(lit) + 1) : SubSeq(text, i, i + Len(lit) - 1) = lit

\* path.rglob('*') reaches the path sub: sub lies strictly below path.
Below(path, sub) ==
  /\ Len(sub) > Len(path) + 1
  /\ SubSeq(sub, 1, Len(path) + 1) = path \o <<"/">>

\* What the paths say, computed once: which file lies below which target,
\* which file matches an exclusion pattern of which target, and which
\* target directory lies below which target.
PathFacts ==
  {<<"below", i, f>> : <<i, f>> \in
     {x \in (1..Len(cleanup_targets)) \X (1..NumFiles) :
        Below(cleanup_targets[x[1]].path, FilePaths[x[2]])}}
  \cup
  {<<"excluded", i, f>> : <<i, f>> \in
     {x \in (1..Len(cleanup_targets)) \X (1..NumFiles) :
        \E k \in 1..Len(cleanup_targets[x[1]].exclude_patterns) :
          Contains(FilePaths[x[2]], cleanup_targets[x[1]].exclude_patterns[k])}}
  \cup
  {<<"nested", i, j>> : <<i, j>> \in
     {x \in (1..Len(cleanup_targets)) \X (1..Len(cleanup_targets)) :
        Below(cleanup_targets[x[1]].path, cleanup_targets[x[2]].path)}}

\* A file on the disk: mtime in seconds, size in bytes; locked when unlink()
\* is refused, unreadable when stat() is refused.
File(exists, mtime, size, locked, unreadable) ==
  [exists |-> exists, mtime |-> mtime, size |-> size, locked |-> locked,
   unreadable |-> unreadable]

Day == 24 * 3600

NoCleanCall == [op |-> "none", categories |-> <<>>, dry_run |-> FALSE,
                include_unsafe |-> FALSE]

\* DiskCleaner.__init__ over a disk with the given files and directories.
DiskCleaner(files, dirs) ==
  [files |-> files, dirs |-> dirs, results |-> <<>>, call |-> NoCleanCall,
   total_freed |-> 0, total_files |-> 0]

NoFile == File(FALSE, 0, 0, FALSE, FALSE)

\* The files of d that path.rglob('*') yields for target i, as a set.
FilesBelow(d, i) ==
  {f \in 1..NumFiles : d.files[f].exists /\ <<"below", i, f>> \in PathFacts}

RECURSIVE SumSizes(_, _)
SumSizes(d, fs) ==
  IF fs = {} THEN 0
  ELSE LET f == CHOOSE x \in fs : TRUE
       IN  d.files[f].size + SumSizes(d, fs \ {f})

\* get_size(target.path): every regular file below the path whose stat()
\* succeeds.
get_size(d, i) ==
  IF i \notin d.dirs THEN 0
  ELSE SumSizes(d, {f \in FilesBelow(d, i) : ~ d.files[f].unreadable})

_should_delete_ignoring_age(d, t, i, f) ==
  ~ (<<"excluded", i, f>> \in PathFacts)

\* _should_delete(item, target.min_age_days, target.exclude_patterns) at
\* time t.
_should_delete(d, t, i, f) ==
  IF <<"excluded", i, f>> \in PathFacts THEN FALSE
  ELSE IF cleanup_targets[i].min_age_days > 0
  THEN IF d.files[f].unreadable THEN FALSE
       ELSE ~ (t - d.files[f].mtime
                 < cleanup_targets[i].min_age_days * Day)
  ELSE TRUE

\* The loop of _delete_path over list(path.rglob('*')), from file f on: acc
\* is the disk so far with bytes_freed, files_deleted and errors.
RECURSIVE DeleteFiles(_, _, _, _)
DeleteFiles_aborting_on_error(acc, t, i, f) ==
  IF f > NumFiles THEN acc
  ELSE IF f \notin FilesBelow(acc.disk, i) THEN DeleteFiles(acc, t, i, f + 1)
  ELSE IF acc.disk.files[f].unreadable
  THEN [acc EXCEPT !.errors =
          Append(@, [text |-> "Permission denied", file |-> f])]
  ELSE IF ~ _should_delete(acc.disk, t, i, f)
  THEN DeleteFiles(acc, t, i, f + 1)
  ELSE IF acc.disk.files[f].locked
  THEN [acc EXCEPT !.errors =
          Append(@, [text |-> "Permission denied", file |-> f])]
  ELSE DeleteFiles([acc EXCEPT !.disk.files[f].exists = FALSE,
                               !.bytes_freed = @ + acc.disk.files[f].size,
                               !.files_deleted = @ + 1],
                   t, i, f + 1)

DeleteFiles(acc, t, i, f) ==
  IF f > NumFiles THEN acc
  ELSE IF f \notin FilesBelow(acc.disk, i) THEN DeleteFiles(acc, t, i, f + 1)
  ELSE IF acc.disk.files[f].unreadable
  THEN DeleteFiles([acc EXCEPT !.errors =
                      Append(@, [text |-> "Permission denied", file |-> f])],
                   t, i, f + 1)
  ELSE IF ~ _should_delete(acc.disk, t, i, f)
  THEN DeleteFiles(acc, t, i, f + 1)
  ELSE IF acc.disk.files[f].locked
  THEN DeleteFiles([acc EXCEPT !.errors =
                      Append(@, [text |-> "Permission denied", file |-> f])],
                   t, i, f + 1)
  ELSE DeleteFiles([acc EXCEPT !.disk.files[f].exists = FALSE,
                               !.bytes_freed = @ + acc.disk.files[f].size,
                               !.files_deleted = @ + 1],
                   t, i, f + 1)

\* _delete_path(path, min_age_days, exclude_patterns) for the directory of
\* target i: the files, then the directories below it that are left empty.
_delete_path(d, t, i) ==
  LET r == DeleteFiles([disk |-> d, bytes_freed |-> 0, files_deleted |-> 0,
                        errors |-> <<>>], t, i, 1)
  IN  [r EXCEPT !.disk.dirs =
         @ \ {j \in @ : /\ <<"nested", i, j>> \in PathFacts
                        /\ FilesBelow(r.disk, j) = {}}]

CleanupResult(i, bytes_freed, files_deleted, errors, skipped, dry_run) ==
  [target |-> cleanup_targets[i].path,
   category |-> cleanup_targets[i].category, bytes_freed |-> bytes_freed,
   files_deleted |-> files_deleted, errors |-> errors, skipped |-> skipped,
   dry_run |-> dry_run]

targets_ignoring_safety(categories, include_unsafe) ==
  SelectSeq([i \in 1..Len(cleanup_targets) |-> i],
            LAMBDA i : /\ categories = <<>>
                          \/ cleanup_targets[i].category \in categories[1]
                       /\ ~ cleanup_targets[i].requires_sudo)

\* The targets clean() works on, by their place in the registry.  The
\* optional list of categories is <<>> for None and <<S>> for the list S.
targets(categories, include_unsafe) ==
  SelectSeq([i \in 1..Len(cleanup_targets) |-> i],
            LAMBDA i : /\ categories = <<>>
                          \/ cleanup_targets[i].category \in categories[1]
                       /\ include_unsafe \/ cleanup_targets[i].safe_to_delete
                       /\ ~ cleanup_targets[i].requires_sudo)

\* One pass of the loop of clean() over target i.
CleanTarget_ignoring_dry_run(d, t, i, dry_run) ==
  IF i \notin d.dirs
  THEN [d EXCEPT !.results = Append(@, CleanupResult(i, 0, 0, <<>>, TRUE, dry_run))]
  ELSE LET r == _delete_path(d, t, i)
       IN  [r.disk EXCEPT
              !.results = Append(@, CleanupResult(i, r.bytes_freed,
                                                  r.files_deleted, r.errors,
                                                  FALSE, dry_run)),
              !.total_freed = @ + r.bytes_freed,
              !.total_files = @ + r.files_deleted]

CleanTarget(d, t, i, dry_run) ==
  IF i \notin d.dirs
  THEN [d EXCEPT !.results = Append(@, CleanupResult(i, 0, 0, <<>>, TRUE, dry_run))]
  ELSE IF dry_run
  THEN [d EXCEPT !.results =
          Append(@, CleanupResult(i, get_size(d, i), 0, <<>>, FALSE, TRUE))]
  ELSE LET r == _delete_path(d, t, i)
       IN  [r.disk EXCEPT
              !.results = Append(@, CleanupResult(i, r.bytes_freed,
                                                  r.files_deleted, r.errors,
                                                  FALSE, FALSE)),
              !.total_freed = @ + r.bytes_freed,
              !.total_files = @ + r.files_deleted]

RECURSIVE CleanTargets(_, _, _, _, _)
CleanTargets_stopping_at_missing(d, t, todo, k, dry_run) ==
  IF k > Len(todo) \/ todo[k] \notin d.dirs THEN d
  ELSE CleanTargets(CleanTarget(d, t, todo[k], dry_run), t, todo, k + 1,
                    dry_run)

CleanTargets(d, t, todo, k, dry_run) ==
  IF k > Len(todo) THEN d
  ELSE CleanTargets(CleanTarget(d, t, todo[k], dry_run), t, todo, k + 1,
                    dry_run)

\* clean(categories, dry_run, include_unsafe) at time t: the disk after the
\* call, with the returned list in results and the arguments in call.
clean(d, t, categories, dry_run, include_unsafe) ==
  CleanTargets([d EXCEPT !.results = <<>>,
                         !.call = [op |-> "clean", categories |-> categories,
                                   dry_run |-> dry_run,
                                   include_unsafe |-> include_unsafe]],
               t, targets(categories, include_unsafe), 1, dry_run)

(***************************************************************************)
(* EnhancedCPUMonitorApp (cpu-menubar-enhanced.py)                         *)
(***************************************************************************)
OFF == "off"

CONSERVATIVE == "conservative"

BALANCED == "balanced"

AGGRESSIVE == "aggressive"

AutoCleanMode == {OFF, CONSERVATIVE, BALANCED, AGGRESSIVE}

\* cpu and memory in tenths of a percent; thermal is the ThermalState floor.
THRESHOLDS ==
  [m \in {CONSERVATIVE, BALANCED, AGGRESSIVE} |->
     CASE m = CONSERVATIVE -> [cpu |-> 900, memory |-> 950, thermal |-> "critical"]
       [] m = BALANCED -> [cpu |-> 700, memory |-> 850, thermal |-> "hot"]
       [] m = AGGRESSIVE -> [cpu |-> 500, memory |-> 700, thermal |-> "warm"]]

cooldown_seconds == 180

NoReason == [text |-> "", value |-> 0]

\* f"CPU at {cpu:.0f}%" and f"Memory at {memory:.0f}%" carry the reading
\* rounded to a whole percent.
CpuReason(cpu) == [text |-> "CPU at", value |-> RoundHalfEven(cpu, 10)]

MemoryReason(memory) == [text |-> "Memory at", value |-> RoundHalfEven(memory, 10)]

CriticalReason == [text |-> "Critical memory pressure", value |-> 0]

WarnReason == [text |-> "Memory pressure warning", value |-> 0]

\* The four checks of _check_auto_cleanup, lines 298-318, run one after the
\* other on the pair (should_clean, reason).
CheckCpu_at_threshold(r, mode, cpu) ==
  IF cpu >= THRESHOLDS[mode].cpu
  THEN [should_clean |-> TRUE, reason |-> CpuReason(cpu)] ELSE r

CheckCpu(r, mode, cpu) ==
  IF cpu > THRESHOLDS[mode].cpu
  THEN [should_clean |-> TRUE, reason |-> CpuReason(cpu)] ELSE r

CheckMemory(r, mode, memory) ==
  IF memory > THRESHOLDS[mode].memory
  THEN [should_clean |-> TRUE, reason |-> MemoryReason(memory)] ELSE r

CheckPressure(r, mode, pressure) ==
  IF pressure = "critical"
  THEN [should_clean |-> TRUE, reason |-> CriticalReason]
  ELSE IF pressure = "warn" /\ mode = AGGRESSIVE
       THEN [should_clean |-> TRUE, reason |-> WarnReason]
       ELSE r

CooldownActive_at_limit(t, last) == t - last <= cooldown_seconds

CooldownActive(t, last) == t - last < cooldown_seconds

\* _check_auto_cleanup(cpu, memory, pressure) with the mode, the clock and
\* last_clean_time it reads: whether _run_auto_cleanup is called, and the
\* reason it is called with.
_check_auto_cleanup(mode, t, last, cpu, memory, pressure) ==
  IF mode = OFF THEN [should_clean |-> FALSE, reason |-> NoReason]
  ELSE IF CooldownActive(t, last) THEN [should_clean |-> FALSE, reason |-> NoReason]
  ELSE CheckPressure(
         CheckMemory(
           CheckCpu([should_clean |-> FALSE, reason |-> NoReason], mode, cpu),
           mode, memory),
         mode, pressure)

(***************************************************************************)
(* kill_process_gracefully(pid), lines 367-404.  A call is the pid, the    *)
(* position in the function, what the re-check found, the signals the call *)
(* has sent and its result.  Each step maps the process table and the call *)
(* to the set of outcomes the operating system allows.                     *)
(***************************************************************************)
NoCall ==
  [pid |-> NoPid, pc |-> "none", recheck |-> "none", sent |-> {}, result |-> "none"]

NewCall(pid) ==
  [pid |-> pid, pc |-> "recheck", recheck |-> "none", sent |-> {}, result |-> "none"]

Returned(c, result) == [c EXCEPT !.pc = "returned", !.result = result]

Outcome(table, c) == [table |-> table, call |-> c]

\* Lines 373-379: psutil.Process(pid) raises NoSuchProcess for a vanished pid;
\* otherwise analyze_process and the protection veto.
RecheckStep_no_veto(table, parents, t, c) ==
  IF ~ Exists(table, c.pid) THEN {Outcome(table, Returned(c, "True"))}
  ELSE LET i == analyze_process(table, parents, t, c.pid)
       IN  {Outcome(table, [c EXCEPT !.pc = "terminate",
                                     !.recheck = IF i = None THEN "unknown"
                                                 ELSE IF i.is_protected
                                                      THEN "protected"
                                                      ELSE "unprotected"])}

RecheckStep(table, parents, t, c) ==
  IF ~ Exists(table, c.pid) THEN {Outcome(table, Returned(c, "True"))}
  ELSE LET i == analyze_process(table, parents, t, c.pid)
       IN  IF i # None /\ i.is_protected
           THEN {Outcome(table, Returned([c EXCEPT !.recheck = "protected"],
                                         "False"))}
           ELSE {Outcome(table, [c EXCEPT !.pc = "terminate",
                                          !.recheck = IF i = None THEN "unknown"
                                                      ELSE "unprotected"])}

\* Line 382: proc.terminate(); NoSuchProcess and AccessDenied end the call.
TerminateStep(table, c) ==
  IF ~ Exists(table, c.pid) THEN {Outcome(table, Returned(c, "True"))}
  ELSE IF table[c.pid].owner = "other"
  THEN {Outcome(table, Returned(c, "False"))}
  ELSE {Outcome(table, [c EXCEPT !.pc = "wait", !.sent = @ \cup {"SIGTERM"}])}

\* The process table once pid has exited.
Exited(table, pid) == [table EXCEPT ![pid].status = "gone"]

\* Lines 386-389: proc.wait(timeout) returns when the process is gone, or
\* raises TimeoutExpired while it is still there.  A zombie stays.
WaitStep(table, c) ==
  (IF table[c.pid].status # "zombie"
   THEN {Outcome(Exited(table, c.pid), Returned(c, "True"))} ELSE {})
  \cup
  (IF Exists(table, c.pid)
   THEN {Outcome(table, [c EXCEPT !.pc = "force"])} ELSE {})

\* Line 391: proc.kill().
ForceStep(table, c) ==
  IF ~ Exists(table, c.pid) THEN {Outcome(table, Returned(c, "True"))}
  ELSE {Outcome(table, [c EXCEPT !.pc = "wait_force",
                                 !.sent = @ \cup {"SIGKILL"}])}

WaitForceStep_assuming_success(table, c) ==
  (IF table[c.pid].status # "zombie"
   THEN {Outcome(Exited(table, c.pid), Returned(c, "True"))} ELSE {})
  \cup
  (IF Exists(table, c.pid)
   THEN {Outcome(table, Returned(c, "True"))} ELSE {})

\* Lines 392-394 and 402-404: proc.wait(1.0); a second TimeoutExpired is
\* caught by `except Exception`.
WaitForceStep(table, c) ==
  (IF table[c.pid].status # "zombie"
   THEN {Outcome(Exited(table, c.pid), Returned(c, "True"))} ELSE {})
  \cup
  (IF Exists(table, c.pid)
   THEN {Outcome(table, Returned(c, "False"))} ELSE {})

CallStep(table, parents, t, c) ==
  CASE c.pc = "recheck" -> RecheckStep(table, parents, t, c)
    [] c.pc = "terminate" -> TerminateStep(table, c)
    [] c.pc = "wait" -> WaitStep(table, c)
    [] c.pc = "force" -> ForceStep(table, c)
    [] c.pc = "wait_force" -> WaitForceStep(table, c)
    [] OTHER -> {}

RECURSIVE RunCall(_, _, _, _)
RunCall(table, parents, t, c) ==
  IF c.pc = "returned" THEN {Outcome(table, c)}
  ELSE UNION {RunCall(o.table, parents, t, o.call) :
                o \in CallStep(table, parents, t, c)}

\* The whole call, with nothing else happening in between.
kill_process_gracefully(table, parents, t, pid) ==
  RunCall(table, parents, t, NewCall(pid))

(***************************************************************************)
(* kill_process_tree(pid, timeout), lines 406-430.  Timeouts are in        *)
(* milliseconds.                                                           *)
(***************************************************************************)
\* The direct children of pid among q..NumPids, in the order of the table.
RECURSIVE ChildrenFrom(_, _, _)
ChildrenFrom(table, pid, q) ==
  IF q > NumPids THEN <<>>
  ELSE (IF Exists(table, q) /\ table[q].ppid = pid THEN <<q>> ELSE <<>>)
       \o ChildrenFrom(table, pid, q + 1)

\* Line 414, parent.children(recursive=True): psutil walks the table with a
\* stack; it lists the children of the pid it pops and pushes them.
RECURSIVE Discover(_, _, _)
Discover(table, stack, seen) ==
  IF stack = <<>> THEN <<>>
  ELSE LET pid == stack[Len(stack)]
           rest == SubSeq(stack, 1, Len(stack) - 1)
           found == ChildrenFrom(table, pid, 1)
       IN  IF pid \in seen THEN Discover(table, rest, seen)
           ELSE found \o Discover(table, rest \o found, seen \cup {pid})

\* reversed(children)
RECURSIVE Reversed(_)
Reversed(seq) ==
  IF seq = <<>> THEN <<>> ELSE Append(Reversed(Tail(seq)), Head(seq))

\* One pass of a loop of kill_process_tree has called
\* kill_process_gracefully(pid, timeout) with outcome o.
Attempted(run, o, pid, timeout) ==
  [table |-> o.table,
   attempts |-> Append(run.attempts, [pid |-> pid, timeout |-> timeout,
                                      result |-> o.call.result]),
   killed |-> IF o.call.result = "True" THEN run.killed + 1 ELSE run.killed]

\* Lines 417-419: the loop over reversed(children), each child with half the
\* timeout.  pids is what is left of reversed(children).
RECURSIVE KillChildren(_, _, _, _, _)
KillChildren(parents, t, pids, timeout, run) ==
  IF pids = <<>> THEN {run}
  ELSE UNION {KillChildren(parents, t, Tail(pids), timeout,
                           Attempted(run, o, Head(pids), timeout)) :
                o \in kill_process_gracefully(run.table, parents, t,
                                              Head(pids))}

kill_process_tree_in_discovery_order(table, parents, t, pid, timeout) ==
  LET entered == [table |-> table, attempts |-> <<>>, killed |-> 0]
  IN  IF ~ Exists(table, pid) THEN {entered}
      ELSE LET children == Discover(table, <<pid>>, {})
           IN  UNION {{Attempted(run, o, pid, timeout) :
                         o \in kill_process_gracefully(run.table, parents, t,
                                                       pid)} :
                        run \in KillChildren(parents, t, children,
                                             timeout \div 2, entered)}

\* The runs of kill_process_tree: the process table it leaves, the calls of
\* kill_process_gracefully it has made and the count it returns.
kill_process_tree(table, parents, t, pid, timeout) ==
  LET entered == [table |-> table, attempts |-> <<>>, killed |-> 0]
  IN  IF ~ Exists(table, pid) THEN {entered}
      ELSE LET children == Discover(table, <<pid>>, {})
           IN  UNION {{Attempted(run, o, pid, timeout) :
                         o \in kill_process_gracefully(run.table, parents, t,
                                                       pid)} :
                        run \in KillChildren(parents, t, Reversed(children),
                                             timeout \div 2, entered)}

(***************************************************************************)
(* Threads and passes.  rumps runs the timers and the menu callbacks on    *)
(* the run-loop thread; a callback that starts a threading.Thread adds a   *)
(* pass to the bag of workers.                                             *)
(***************************************************************************)
\* One cleanup pass: _background_cleanup ("auto"), run_process_cleanup
\* ("manual"), _background_cache_cleanup ("cache"), _background_deep_cleanup
\* ("deep").  trigger_mode is the mode the trigger notification announced;
\* min_score and min_cpu are the arguments evaluated for the next call of
\* get_killable_processes.
IdlePass ==
  [kind |-> "idle", pc |-> "idle", reason |-> NoReason, trigger_mode |-> OFF,
   min_score |-> 0, min_cpu |-> 0, killable |-> <<>>, idx |-> 1,
   killed |-> 0, protected |-> 0, call |-> NoCall]

AutoKillLimit == 5

ManualKillLimit == 10

KillLimit(kind) == IF kind = "auto" THEN AutoKillLimit ELSE ManualKillLimit

PidsOf(processes) == [i \in 1..Len(processes) |-> processes[i].pid]

\* The passes in flight, each with the thread it runs on.
Running ==
  (IF main_pass.kind # "idle"
   THEN {[on |-> "main", rec |-> main_pass]} ELSE {})
  \cup {[on |-> "worker", rec |-> r] : r \in BagToSet(workers)}

PassesInFlight ==
  (IF main_pass.kind # "idle" THEN 1 ELSE 0) + BagCardinality(workers)

\* No pass is in flight.
Quiet == PassesInFlight = 0

MainIdle == main.pc = "idle"

IdleMain == [pc |-> "idle", cpu |-> 0, memory |-> 0, pressure |-> "normal"]

\* threading.Thread(target=...).start()
StartThread(r) ==
  /\ BagCardinality(workers) < MaxWorkers
  /\ workers' = workers (+) SetToBag({r})

\* The pass th goes on as r.
Continue(th, r) ==
  IF th.on = "main"
  THEN main_pass' = r /\ UNCHANGED <<main, workers>>
  ELSE /\ workers' = (workers (-) SetToBag({th.rec})) (+) SetToBag({r})
       /\ UNCHANGED <<main, main_pass>>

\* The pass th ends: a thread finishes, the menu callback returns.
EndPass(th) ==
  IF th.on = "main"
  THEN main_pass' = IdlePass /\ main' = IdleMain /\ UNCHANGED workers
  ELSE /\ workers' = workers (-) SetToBag({th.rec})
       /\ UNCHANGED <<main, main_pass>>

\* SystemStatus: of its fields the two that update_thermal writes.
SystemStatus(thermal_state, throttle_state) ==
  [thermal_state |-> thermal_state, throttle_state |-> throttle_state]

(***************************************************************************)
(* The run loop: update_status and the menu callbacks.                     *)
(***************************************************************************)
\* update_status, lines 188-234: the readings of this tick.
Sample(cpu, memory, pressure) ==
  /\ MainIdle
  /\ main' = [pc |-> "update_status", cpu |-> cpu, memory |-> memory,
              pressure |-> pressure]
  /\ UNCHANGED <<procs, now, current_pid, parent_pids, auto_clean_mode,
                 last_clean_time, main_pass, workers, info, listing, disk, last_status, tree>>

\* _run_auto_cleanup(reason): the cooldown restarts and the worker starts.
_run_auto_cleanup(reason) ==
  /\ last_clean_time' = now
  /\ StartThread([IdlePass EXCEPT !.kind = "auto", !.pc = "min_score",
                                  !.reason = reason,
                                  !.trigger_mode = auto_clean_mode])

CheckAutoCleanup_with_thermal_floor ==
  /\ main.pc = "update_status"
  /\ LET r == _check_auto_cleanup(auto_clean_mode, now, last_clean_time,
                                  main.cpu, main.memory, main.pressure)
         hot == /\ last_status # <<>>
                /\ last_status[1].thermal_state \in {"critical", "danger"}
                /\ auto_clean_mode # OFF
                /\ ~ CooldownActive(now, last_clean_time)
     IN  IF r.should_clean \/ hot
         THEN _run_auto_cleanup(r.reason)
         ELSE UNCHANGED <<last_clean_time, workers>>
  /\ last_status' = <<SystemStatus("unknown", "unknown")>>
  /\ main' = IdleMain
  /\ UNCHANGED <<procs, now, current_pid, parent_pids, auto_clean_mode,
                 main_pass, info, listing, disk, tree>>

\* update_status, lines 236-255: the status is stored with the thermal
\* fields unknown, then _check_auto_cleanup runs on the readings.
CheckAutoCleanup ==
  /\ main.pc = "update_status"
  /\ LET r == _check_auto_cleanup(auto_clean_mode, now, last_clean_time,
                                  main.cpu, main.memory, main.pressure)
     IN  IF r.should_clean
         THEN _run_auto_cleanup(r.reason)
         ELSE UNCHANGED <<last_clean_time, workers>>
  /\ last_status' = <<SystemStatus("unknown", "unknown")>>
  /\ main' = IdleMain
  /\ UNCHANGED <<procs, now, current_pid, parent_pids, auto_clean_mode,
                 main_pass, info, listing, disk, tree>>

\* update_thermal: the timer callback stores the thermal monitor's reading
\* in the status, if there is one.
update_thermal(cpu_state, throttle_state) ==
  /\ MainIdle
  /\ last_status' = IF last_status = <<>> THEN last_status
                    ELSE <<[last_status[1] EXCEPT
                              !.thermal_state = cpu_state,
                              !.throttle_state = throttle_state]>>
  /\ UNCHANGED <<procs, now, current_pid, parent_pids, auto_clean_mode,
                 last_clean_time, main, main_pass, workers, info, listing,
                 disk, tree>>

set_auto_mode_mid_tick(mode) ==
  /\ auto_clean_mode' = mode
  /\ UNCHANGED <<procs, now, current_pid, parent_pids, last_clean_time,
                 main, main_pass, workers, info, listing, disk, last_status, tree>>

set_auto_mode(mode) ==
  /\ MainIdle
  /\ auto_clean_mode' = mode
  /\ UNCHANGED <<procs, now, current_pid, parent_pids, last_clean_time,
                 main, main_pass, workers, info, listing, disk, last_status, tree>>

run_process_cleanup_starting_cooldown ==
  /\ MainIdle
  /\ main' = [IdleMain EXCEPT !.pc = "run_process_cleanup"]
  /\ main_pass' = [IdlePass EXCEPT !.kind = "manual", !.pc = "list",
                                   !.min_score = 3000, !.min_cpu = 200]
  /\ last_clean_time' = now
  /\ UNCHANGED <<procs, now, current_pid, parent_pids, auto_clean_mode,
                 workers, info, listing, disk, last_status, tree>>

\* run_process_cleanup: the pass runs inside the callback.
run_process_cleanup ==
  /\ MainIdle
  /\ main' = [IdleMain EXCEPT !.pc = "run_process_cleanup"]
  /\ main_pass' = [IdlePass EXCEPT !.kind = "manual", !.pc = "list",
                                   !.min_score = 3000, !.min_cpu = 200]
  /\ UNCHANGED <<procs, now, current_pid, parent_pids, auto_clean_mode,
                 last_clean_time, workers, info, listing, disk, last_status, tree>>

\* run_cache_cleanup: starts _background_cache_cleanup on a thread.
run_cache_cleanup ==
  /\ MainIdle
  /\ StartThread([IdlePass EXCEPT !.kind = "cache", !.pc = "clean"])
  /\ UNCHANGED <<procs, now, current_pid, parent_pids, auto_clean_mode,
                 last_clean_time, main, main_pass, info, listing, disk, last_status, tree>>

\* run_deep_cleanup: starts _background_deep_cleanup on a thread.
run_deep_cleanup ==
  /\ MainIdle
  /\ StartThread([IdlePass EXCEPT !.kind = "deep", !.pc = "list",
                                  !.min_score = 2500, !.min_cpu = 150])
  /\ UNCHANGED <<procs, now, current_pid, parent_pids, auto_clean_mode,
                 last_clean_time, main, main_pass, info, listing, disk, last_status, tree>>

(***************************************************************************)
(* The passes, one step at a time.                                         *)
(***************************************************************************)
AppFrame == UNCHANGED <<now, current_pid, parent_pids, auto_clean_mode,
                        last_clean_time, info, listing, disk, last_status, tree>>

\* _background_cleanup, line 346: min_score from the mode read now.
ReadMinScore(th) ==
  /\ th.rec.kind = "auto" /\ th.rec.pc = "min_score"
  /\ Continue(th, [th.rec EXCEPT
                     !.pc = "min_cpu",
                     !.min_score =
                        IF auto_clean_mode = AGGRESSIVE THEN 3000 ELSE 5000])
  /\ UNCHANGED procs
  /\ AppFrame

\* _background_cleanup, line 347: min_cpu from the mode read now.
ReadMinCpu(th) ==
  /\ th.rec.kind = "auto" /\ th.rec.pc = "min_cpu"
  /\ Continue(th, [th.rec EXCEPT
                     !.pc = "list",
                     !.min_cpu =
                        IF auto_clean_mode = AGGRESSIVE THEN 200 ELSE 300])
  /\ UNCHANGED procs
  /\ AppFrame

\* The call of get_killable_processes: _background_cleanup line 345,
\* run_process_cleanup line 375, _background_deep_cleanup line 463.
ListKillable(th) ==
  /\ th.rec.pc = "list"
  /\ Continue(th, [th.rec EXCEPT
                     !.pc = "loop",
                     !.killable =
                        PidsOf(get_killable_processes(
                                 procs, parent_pids, now,
                                 th.rec.min_score, th.rec.min_cpu)),
                     !.min_score = 0, !.min_cpu = 0, !.trigger_mode = OFF])
  /\ UNCHANGED procs
  /\ AppFrame

LoopDone(r) == r.idx > Min(Len(r.killable), KillLimit(r.kind))

\* if kill_process_gracefully(proc.pid): killed += 1, and in
\* run_process_cleanup else: protected += 1; then the next candidate.
Counted(r, c) ==
  [r EXCEPT !.pc = "loop",
            !.idx = @ + 1,
            !.killed = IF c.result = "True" THEN @ + 1 ELSE @,
            !.protected = IF c.result = "False" /\ r.kind = "manual"
                          THEN @ + 1 ELSE @,
            !.call = c]

\* for proc in killable[:limit]: one whole call of kill_process_gracefully.
KillCall(th) ==
  /\ th.rec.pc = "loop" /\ ~ LoopDone(th.rec)
  /\ \E o \in kill_process_gracefully(procs, parent_pids, now,
                                      th.rec.killable[th.rec.idx]) :
       /\ procs' = o.table
       /\ Continue(th, Counted(th.rec, o.call))
  /\ AppFrame

\* The loop is over: the auto and manual passes notify and end, the deep
\* pass goes on to the caches.
AfterLoop(th) ==
  /\ th.rec.pc = "loop" /\ LoopDone(th.rec)
  /\ IF th.rec.kind = "deep"
     THEN Continue(th, [th.rec EXCEPT !.pc = "clean", !.call = NoCall])
     ELSE EndPass(th)
  /\ UNCHANGED procs
  /\ AppFrame

\* disk_cleaner.clean(..., dry_run=False): the file-deletion pass.
CleanCaches(th) ==
  /\ th.rec.kind \in {"cache", "deep"} /\ th.rec.pc = "clean"
  /\ Continue(th, [th.rec EXCEPT !.pc = "dns"])
  /\ disk' = [clean(disk, now,
                     IF th.rec.kind = "cache"
                     THEN <<{"user_cache", "browser_cache", "dev_cache",
                             "temp_files"}>>
                     ELSE <<>>,
                     FALSE, FALSE)
                 EXCEPT !.results = <<>>, !.call = NoCleanCall]
  /\ UNCHANGED <<procs, now, current_pid, parent_pids, auto_clean_mode,
                 last_clean_time, info, listing, last_status, tree>>

\* disk_cleaner.clean_dns_cache(), then the closing notification.
FlushDns(th) ==
  /\ th.rec.kind \in {"cache", "deep"} /\ th.rec.pc = "dns"
  /\ EndPass(th)
  /\ UNCHANGED procs
  /\ AppFrame

(***************************************************************************)
(* The same loop with kill_process_gracefully taken one step at a time, so *)
(* that other processes act between its steps.                             *)
(***************************************************************************)
\* for proc in killable[:limit]: the call starts.
BeginKill(th) ==
  /\ th.rec.pc = "loop" /\ ~ LoopDone(th.rec)
  /\ Continue(th, [th.rec EXCEPT
                     !.pc = "kill",
                     !.call = NewCall(th.rec.killable[th.rec.idx])])
  /\ UNCHANGED procs
  /\ AppFrame

InCall(th, pc) == th.rec.pc = "kill" /\ th.rec.call.pc = pc

\* The call goes on as o.call, or returns to the loop.
CallOutcome(th, o) ==
  /\ procs' = o.table
  /\ Continue(th, IF o.call.pc = "returned" THEN Counted(th.rec, o.call)
                  ELSE [th.rec EXCEPT !.call = o.call])
  /\ AppFrame

Recheck(th) ==
  /\ InCall(th, "recheck")
  /\ \E o \in RecheckStep(procs, parent_pids, now, th.rec.call) :
       CallOutcome(th, o)

Terminate(th) ==
  /\ InCall(th, "terminate")
  /\ \E o \in TerminateStep(procs, th.rec.call) : CallOutcome(th, o)

Wait(th) ==
  /\ InCall(th, "wait")
  /\ \E o \in WaitStep(procs, th.rec.call) : CallOutcome(th, o)

ForceKill(th) ==
  /\ InCall(th, "force")
  /\ \E o \in ForceStep(procs, th.rec.call) : CallOutcome(th, o)

WaitForce(th) ==
  /\ InCall(th, "wait_force")
  /\ \E o \in WaitForceStep(procs, th.rec.call) : CallOutcome(th, o)

\* The disk the application starts on: two cache files and a protected one.
BootDisk ==
  DiskCleaner(<<File(TRUE, StartTime - 40 * Day, 1, FALSE, FALSE),
                File(TRUE, StartTime - 40 * Day, 2, FALSE, FALSE),
                File(TRUE, StartTime - 40 * Day, 4, FALSE, FALSE),
                NoFile, NoFile, NoFile, NoFile, NoFile>>,
              {1, 2, 20})

(***************************************************************************)
(* The machine the application runs on.                                    *)
(***************************************************************************)
\* launchd, the tool itself, two helper processes of the user's and one
\* indexing process of another user's.
BootTable ==
  [p \in Pids |->
     CASE p = 1 -> Proc("running", T.launchd, T.sbin_launchd, 50, 10, 300,
                        StartTime - 90000, 0, FALSE, "other")
       [] p = 2 -> Proc("running", T.Python, T.menubar, 350, 20, 40,
                        StartTime - 600, 1, TRUE, "user")
       [] p = 3 -> Proc("running", T.ChromeHelper, T.empty, 950, 80, 120,
                        StartTime - 100, 1, FALSE, "user")
       [] p = 4 -> Proc("running", T.SlackHelper, T.empty, 450, 60, 50,
                        StartTime - 7200, 1, FALSE, "user")
       [] p = 5 -> Proc("running", T.mds_stores, T.empty, 600, 120, 900,
                        StartTime - 300, 1, FALSE, "other")
       [] OTHER -> NoProc]

NoInfo == None

NoListing == [op |-> "none", min_score |-> 0, min_cpu |-> 0, result |-> <<>>]

\* No call of kill_process_tree has been made.
NoTree ==
  [op |-> "none", pid |-> NoPid, timeout |-> 0, attempts |-> <<>>, killed |-> 0]

\* ProcessScorer.__init__ and EnhancedCPUMonitorApp.__init__ on table.
Boot(table, d) ==
  /\ procs = table
  /\ now = StartTime
  /\ current_pid = 2
  /\ parent_pids = _get_parent_pids(table, 2)
  /\ auto_clean_mode = OFF
  /\ last_clean_time = 0
  /\ main = IdleMain
  /\ main_pass = IdlePass
  /\ workers = EmptyBag
  /\ info = NoInfo
  /\ listing = NoListing
  /\ disk = d
  /\ last_status = <<>>
  /\ tree = NoTree

\* time.time() moves on to the instant t.
Advance(t) ==
  /\ t > now
  /\ now' = t
  /\ UNCHANGED <<procs, current_pid, parent_pids, auto_clean_mode,
                 last_clean_time, main, main_pass, workers, info, listing, disk, last_status, tree>>

(***************************************************************************)
(* Spec: the application, its run loop and its worker threads.             *)
(***************************************************************************)
AppReadings ==
  {[cpu |-> 400, memory |-> 400, pressure |-> "normal"],
   [cpu |-> 950, memory |-> 400, pressure |-> "normal"]}

AppClock == {StartTime, StartTime + 190}

Init == Boot(BootTable, BootDisk)

Next ==
  \/ \E r \in AppReadings : Sample(r.cpu, r.memory, r.pressure)
  \/ CheckAutoCleanup
  \/ \E mode \in AutoCleanMode : set_auto_mode(mode)
  \/ run_process_cleanup
  \/ run_cache_cleanup
  \/ run_deep_cleanup
  \/ \E th \in Running : ReadMinScore(th)
  \/ \E th \in Running : ReadMinCpu(th)
  \/ \E th \in Running : ListKillable(th)
  \/ \E th \in Running : KillCall(th)
  \/ \E th \in Running : AfterLoop(th)
  \/ \E th \in Running : CleanCaches(th)
  \/ \E th \in Running : FlushDns(th)
  \/ \E t \in AppClock : Advance(t)
  \/ update_thermal("critical", "heavy")

Spec == Init /\ [][Next]_vars

(***************************************************************************)
(* SpecKill: kill_process_gracefully step by step while the other          *)
(* processes of the machine go on; a pass starts once the pass before it   *)
(* is over.                                                                *)
(***************************************************************************)
\* A process of the user's opens a file under the home directory.
OpensHomeFile(p) ==
  /\ procs[p].status = "running" /\ procs[p].owner = "user"
  /\ ~ procs[p].open_home
  /\ procs' = [procs EXCEPT ![p].open_home = TRUE]
  /\ UNCHANGED <<now, current_pid, parent_pids, auto_clean_mode,
                 last_clean_time, main, main_pass, workers, info, listing, disk, last_status, tree>>

\* A process of the user's exits by itself: a zombie until its parent reaps
\* it.
ProcessExits(p) ==
  /\ p \notin parent_pids /\ procs[p].owner = "user"
  /\ procs[p].status \in {"running", "zombie"}
  /\ procs' = [procs EXCEPT
                 ![p].status = IF @ = "running" THEN "zombie" ELSE "gone"]
  /\ UNCHANGED <<now, current_pid, parent_pids, auto_clean_mode,
                 last_clean_time, main, main_pass, workers, info, listing, disk, last_status, tree>>

\* The process parent forks a child, which gets the last pid of the table.
Spawns(parent) ==
  /\ procs[parent].status = "running" /\ procs[parent].owner = "user"
  /\ parent \notin parent_pids
  /\ procs[NumPids] = NoProc
  /\ procs' = [procs EXCEPT
                 ![NumPids] = Proc("running", T.renderer, T.empty, 10, 10, 10,
                                   now, parent, FALSE, "user")]
  /\ UNCHANGED <<now, current_pid, parent_pids, auto_clean_mode,
                 last_clean_time, main, main_pass, workers, info, listing, disk, last_status, tree>>

KillReadings == {[cpu |-> 950, memory |-> 400, pressure |-> "normal"]}

KillModes == {CONSERVATIVE, AGGRESSIVE}

InitKill == Boot(BootTable, BootDisk)

NextKill ==
  \/ Quiet /\ \E r \in KillReadings : Sample(r.cpu, r.memory, r.pressure)
  \/ CheckAutoCleanup
  \/ Quiet /\ \E mode \in KillModes : set_auto_mode(mode)
  \/ Quiet /\ run_process_cleanup
  \/ Quiet /\ run_deep_cleanup
  \/ \E th \in Running : ReadMinScore(th)
  \/ \E th \in Running : ReadMinCpu(th)
  \/ \E th \in Running : ListKillable(th)
  \/ \E th \in Running : BeginKill(th)
  \/ \E th \in Running : Recheck(th)
  \/ \E th \in Running : Terminate(th)
  \/ \E th \in Running : Wait(th)
  \/ \E th \in Running : ForceKill(th)
  \/ \E th \in Running : WaitForce(th)
  \/ \E th \in Running : AfterLoop(th)
  \/ \E th \in Running : CleanCaches(th)
  \/ \E th \in Running : FlushDns(th)
  \/ \E p \in Pids : OpensHomeFile(p)
  \/ \E p \in Pids : ProcessExits(p)
  \/ \E parent \in Pids : Spawns(parent)

SpecKill == InitKill /\ [][NextKill]_vars

(***************************************************************************)
(* SpecScorer: the queries of ProcessScorer on a process table drawn at    *)
(* the start.                                                              *)
(***************************************************************************)
SubjectCpus == {50, 250, 1200}

SubjectMems == {20, 150}

SubjectFds == {40, 6000}

SubjectCreateTimes == {StartTime - 100, StartTime - 7200}

\* launchd, the tool, a subject process drawn freely (which the tool may
\* descend from), a process that may be the subject's child and may be a
\* zombie, and two helpers with the same readings.
ScorerTable(name, cmdline, cpu, mem, fds, create_time, open_home, owner, tool_parent, child_parent, child_status) ==
  [p \in Pids |->
     CASE p = 1 -> Proc("running", T.launchd, T.sbin_launchd, 50, 10, 300,
                        StartTime - 90000, 0, FALSE, "other")
       [] p = 2 -> Proc("running", T.Python, T.menubar, 350, 20, 40,
                        StartTime - 600, tool_parent, TRUE, "user")
       [] p = 3 -> Proc("running", name, cmdline, cpu, mem, fds, create_time,
                        1, open_home, owner)
       [] p = 4 -> Proc(child_status, T.renderer, T.empty, 300, 10, 10,
                        StartTime - 50, child_parent, FALSE, "user")
       [] p = 5 -> Proc("running", T.SlackHelper, T.empty, 450, 60, 50,
                        StartTime - 7200, 1, FALSE, "user")
       [] p = 6 -> Proc("running", T.SlackHelper, T.empty, 450, 60, 50,
                        StartTime - 7200, 1, FALSE, "user")
       [] OTHER -> NoProc]

\* The name and the command line of the subject.
Subjects ==
  {<<T.launchd, T.sbin_launchd>>, <<T.Finder, T.empty>>,
   <<T.node, T.node>>, <<T.Firefox, T.vim>>,
   <<T.zsh, T.dash_zsh>>, <<T.zsh, T.empty>>,
   <<T.ChromeHelper, T.empty>>, <<T.SlackHelper, T.empty>>,
   <<T.Dropbox, T.empty>>, <<T.SpotifyHelper, T.empty>>,
   <<T.mds_stores, T.empty>>, <<T.worker, T.empty>>,
   <<T.Python, T.menubar>>}

InitScorer ==
  \E subject \in Subjects,
     cpu \in SubjectCpus, mem \in SubjectMems, fds \in SubjectFds,
     create_time \in SubjectCreateTimes, open_home \in BOOLEAN,
     owner \in {"user", "other"}, tool_parent \in {1, 3},
     child_parent \in {1, 3}, child_status \in {"running", "zombie"} :
    Boot(ScorerTable(subject[1], subject[2], cpu, mem, fds, create_time,
                     open_home, owner, tool_parent, child_parent,
                     child_status),
         BootDisk)

\* No query result is held.
NoResult == info = NoInfo /\ listing = NoListing

ScorerFrame == UNCHANGED <<procs, now, current_pid, parent_pids,
                           auto_clean_mode, last_clean_time, main, main_pass,
                           workers, disk, last_status, tree>>

\* analyze_process(psutil.Process(pid))
Analyze(pid) ==
  /\ NoResult
  /\ info' = analyze_process(procs, parent_pids, now, pid)
  /\ listing' = NoListing
  /\ ScorerFrame

Listed(op, min_score, min_cpu, result) ==
  /\ NoResult
  /\ listing' = [op |-> op, min_score |-> min_score, min_cpu |-> min_cpu,
                 result |-> result]
  /\ info' = NoInfo
  /\ ScorerFrame

GetAll(min_cpu) ==
  Listed("get_all_processes", 0, min_cpu,
         get_all_processes(procs, parent_pids, now, min_cpu))

GetKillable(min_score, min_cpu) ==
  Listed("get_killable_processes", min_score, min_cpu,
         get_killable_processes(procs, parent_pids, now, min_score, min_cpu))

GetTopHogs(limit) ==
  Listed("get_top_resource_hogs", 0, 10,
         get_top_resource_hogs(procs, parent_pids, now, limit))

\* The caller drops the result it holds.
Forget ==
  /\ ~ NoResult
  /\ info' = NoInfo
  /\ listing' = NoListing
  /\ ScorerFrame

MinScores == {ProtectedScore, 0, 3000, 5000}

MinCpus == {0, 300}

NextScorer ==
  \/ \E pid \in Pids : Analyze(pid)
  \/ \E min_cpu \in MinCpus : GetAll(min_cpu)
  \/ \E min_score \in MinScores, min_cpu \in MinCpus :
       GetKillable(min_score, min_cpu)
  \/ \E limit \in {3, 10} : GetTopHogs(limit)
  \/ Forget

SpecScorer == InitScorer /\ [][NextScorer]_vars

(***************************************************************************)
(* SpecController: the auto-cleanup trigger on a machine with nothing to   *)
(* kill, over readings around the thresholds and instants around the       *)
(* cooldown; a tick is looked at once the pass before it is over.          *)
(***************************************************************************)
\* launchd and the tool alone.
QuietTable ==
  [p \in Pids |-> IF p \in {1, 2} THEN BootTable[p] ELSE NoProc]

ControllerReadings ==
  [cpu : {400, 500, 600, 700, 900, 950},
   memory : {400, 700, 850, 950, 960},
   pressure : {"normal", "warn", "critical"}]

ControllerClock ==
  {StartTime, StartTime + 10, StartTime + 179, StartTime + 180,
   StartTime + 200}

\* ThermalMonitor.get_status(): cpu_state and throttle_state.
ThermalReadings ==
  {<<"cool", "none">>, <<"warm", "none">>, <<"hot", "light">>,
   <<"critical", "heavy">>, <<"danger", "emergency">>}

InitController == Boot(QuietTable, BootDisk)

NextController ==
  \/ Quiet /\ \E r \in ControllerReadings : Sample(r.cpu, r.memory, r.pressure)
  \/ CheckAutoCleanup
  \/ \E mode \in AutoCleanMode : set_auto_mode(mode)
  \/ \E th \in Running : ReadMinScore(th)
  \/ \E th \in Running : ReadMinCpu(th)
  \/ \E th \in Running : ListKillable(th)
  \/ \E th \in Running : AfterLoop(th)
  \/ \E t \in ControllerClock : Advance(t)
  \/ \E r \in ThermalReadings : update_thermal(r[1], r[2])

SpecController == InitController /\ [][NextController]_vars

(***************************************************************************)
(* The cleaner on its own: clean() called with any arguments on disks that *)
(* differ in which files exist, how old they are, and which of them refuse *)
(* unlink() or stat().                                                     *)
(***************************************************************************)

InitCleaner ==
  \E locked \in BOOLEAN, chrome \in BOOLEAN, unreadable \in BOOLEAN,
     log_age \in {3 * Day, 7 * Day, 40 * Day},
     report_age \in {10 * Day, 40 * Day} :
    Boot(QuietTable,
         DiskCleaner(<<File(TRUE, StartTime - Day, 1, locked, FALSE),
                       File(chrome, StartTime - Day, 2, FALSE, FALSE),
                       File(TRUE, StartTime - Day, 4, FALSE, FALSE),
                       File(TRUE, StartTime - log_age, 8, FALSE, unreadable),
                       File(TRUE, StartTime - report_age, 16, FALSE, FALSE),
                       File(TRUE, StartTime - 40 * Day, 32, FALSE, FALSE),
                       File(TRUE, StartTime - 40 * Day, 64, FALSE, FALSE),
                       File(TRUE, StartTime - Day, 128, FALSE, FALSE)>>,
                     {1, 2, 7, 17, 18, 19, 20, 28}))

\* disk_cleaner.clean(categories, dry_run, include_unsafe).
Clean(categories, dry_run, include_unsafe) ==
  /\ disk' = clean(disk, now, categories, dry_run, include_unsafe)
  /\ UNCHANGED <<procs, now, current_pid, parent_pids, auto_clean_mode,
                 last_clean_time, main, main_pass, workers, info, listing,
                 last_status, tree>>

NextCleaner ==
  \E categories \in {<<>>, <<{}>>, <<{"logs"}>>,
                      <<{"user_cache", "browser_cache"}>>,
                      <<{"downloads", "logs"}>>},
     dry_run \in BOOLEAN, include_unsafe \in BOOLEAN :
    Clean(categories, dry_run, include_unsafe)

SpecCleaner == InitCleaner /\ [][NextCleaner]_vars

(***************************************************************************)
(* SpecTree: kill_process_tree on a process tree.  Nothing in the app      *)
(* calls it; the caller here is any user of ProcessScorer.                 *)
(***************************************************************************)
\* launchd, the tool, and a tree: 3 with the children 4 and 6, and 5 the
\* child of 4.
TreeTable(leaf_name, home_4, owner_6) ==
  [p \in Pids |->
     CASE p = 1 -> Proc("running", T.launchd, T.sbin_launchd, 50, 10, 300,
                        StartTime - 90000, 0, FALSE, "other")
       [] p = 2 -> Proc("running", T.Python, T.menubar, 350, 20, 40,
                        StartTime - 600, 1, TRUE, "user")
       [] p = 3 -> Proc("running", T.worker, T.empty, 900, 60, 50,
                        StartTime - 7200, 1, FALSE, "user")
       [] p = 4 -> Proc("running", T.worker, T.empty, 300, 10, 10,
                        StartTime - 7000, 3, home_4, "user")
       [] p = 5 -> Proc("running", leaf_name, T.empty, 300, 10, 10,
                        StartTime - 6000, 4, FALSE, "user")
       [] p = 6 -> Proc("running", T.worker, T.empty, 450, 60, 50,
                        StartTime - 6500, 3, FALSE, owner_6)
       [] OTHER -> NoProc]

InitTree ==
  \E leaf_name \in {T.worker, T.Finder}, home_4 \in BOOLEAN,
     owner_6 \in {"user", "other"} :
    Boot(TreeTable(leaf_name, home_4, owner_6), BootDisk)

TreeFrame == UNCHANGED <<now, current_pid, parent_pids, auto_clean_mode,
                         last_clean_time, main, main_pass, workers, info,
                         listing, disk, last_status>>

\* A process of the tree exits on its own while no call is under way.
ExitAlone(pid) ==
  /\ tree = NoTree
  /\ procs[pid].status = "running"
  /\ procs' = Exited(procs, pid)
  /\ UNCHANGED tree
  /\ TreeFrame

\* killed = kill_process_tree(pid, timeout)
KillTree(pid, timeout) ==
  /\ tree = NoTree
  /\ \E run \in kill_process_tree(procs, parent_pids, now, pid, timeout) :
       /\ procs' = run.table
       /\ tree' = [op |-> "kill_process_tree", pid |-> pid,
                   timeout |-> timeout, attempts |-> run.attempts,
                   killed |-> run.killed]
  /\ TreeFrame

\* The caller drops the count.
ForgetTree ==
  /\ tree # NoTree
  /\ tree' = NoTree
  /\ UNCHANGED procs
  /\ TreeFrame

NextTree ==
  \/ \E pid \in 3..6 : ExitAlone(pid)
  \/ \E pid \in 3..6, timeout \in {2000, 5000} : KillTree(pid, timeout)
  \/ ForgetTree

SpecTree == InitTree /\ [][NextTree]_vars

\* The calls of kill_process_gracefully the passes in flight are in, or have
\* last returned from.
Calls == {th.rec.call : th \in Running} \ {NoCall}

\* C1: whoever calls kill_process_gracefully, the process is analysed again
\* before anything is sent; a call whose fresh analysis finds the process
\* protected has sent no signal and has returned False, although the process
\* was unprotected when it was listed; and every signal a call has sent
\* follows a fresh analysis that did not find the process protected.
C1_RecheckVetoesProtected ==
  \A c \in Calls :
    /\ c.recheck = "protected" =>
         c.sent = {} /\ c.pc = "returned" /\ c.result = "False"
    /\ c.sent # {} => c.recheck \in {"unprotected", "unknown"}
    /\ c.pc \notin {"recheck", "returned"} => c.recheck # "none"

\* A pass has listed a process as killable, the process has become protected
\* since, and the call has refused it.
C1_Witness ==
  \E th \in Running :
    /\ th.rec.idx > 1
    /\ th.rec.call.pid = th.rec.killable[th.rec.idx - 1]
    /\ th.rec.call.recheck = "protected"
    /\ th.rec.call.result = "False"
    /\ th.rec.call.sent = {}

\* The place of the process pid in a list of ProcessInfo.
PosIn(processes, pid) ==
  CHOOSE i \in 1..Len(processes) : processes[i].pid = pid

\* C2: get_killable_processes(min_score, min_cpu) returns exactly the
\* processes that can be analysed, are not protected, score at least
\* min_score and use at least min_cpu of CPU, each once, in the order
\* get_all_processes(min_cpu) gives them; no protected process is returned,
\* however low min_score is.
C2_KillableExactlyTheUnprotected ==
  listing.op = "get_killable_processes" =>
    LET res == listing.result
        all_procs == get_all_processes(procs, parent_pids, now, listing.min_cpu)
        qualifies(a) == /\ a # None
                        /\ ~ a.is_protected
                        /\ a.kill_score >= listing.min_score
                        /\ a.cpu_percent >= listing.min_cpu
    IN  /\ \A i \in 1..Len(res) :
             /\ res[i] = analyze_process(procs, parent_pids, now, res[i].pid)
             /\ qualifies(res[i])
        /\ \A pid \in Pids :
             qualifies(analyze_process(procs, parent_pids, now, pid))
               => \E i \in 1..Len(res) : res[i].pid = pid
        /\ \A i, j \in 1..Len(res) :
             i < j => /\ res[i].pid # res[j].pid
                      /\ PosIn(all_procs, res[i].pid)
                           < PosIn(all_procs, res[j].pid)

\* A query with the lowest min_score returns two processes or more and leaves
\* out a protected process that is above the CPU floor.
C2_Witness ==
  /\ listing.op = "get_killable_processes"
  /\ listing.min_score = ProtectedScore
  /\ Len(listing.result) >= 2
  /\ \E pid \in Pids :
       LET a == analyze_process(procs, parent_pids, now, pid)
       IN  /\ a # None /\ a.is_protected
           /\ a.cpu_percent >= listing.min_cpu
           /\ a.kill_score >= listing.min_score
           /\ \A i \in 1..Len(listing.result) : listing.result[i].pid # pid

\* The tool's own ancestry: the least set of pids that holds the tool's pid
\* and, with a pid, the pid of its parent.
InOwnAncestry(pid) ==
  \A S \in SUBSET Pids :
    (/\ current_pid \in S
     /\ \A q \in S : ParentOf(procs, q) # NoPid => ParentOf(procs, q) \in S)
      => pid \in S

\* C3: a process is flagged protected exactly when its pid is in the tool's
\* own ancestry, or its category is system-critical, development or
\* terminal, or it has a child, or it holds a file open under the home
\* directory; its CPU, memory, descriptors and age have no say.
C3_ProtectedIffFourGrounds ==
  info # NoInfo =>
    (info.is_protected <=>
       \/ InOwnAncestry(info.pid)
       \/ info.category \in {SYSTEM_CRITICAL, DEVELOPMENT, TERMINAL}
       \/ info.children_count > 0
       \/ info.has_open_files_in_home)

\* A process is protected by its child alone, at the highest CPU reading.
C3_Witness ==
  /\ info # NoInfo
  /\ info.is_protected
  /\ ~ InOwnAncestry(info.pid)
  /\ info.category \notin {SYSTEM_CRITICAL, DEVELOPMENT, TERMINAL}
  /\ info.children_count > 0
  /\ ~ info.has_open_files_in_home
  /\ info.cpu_percent = 1200

TickEvaluated == main.pc = "update_status" /\ main'.pc = "idle"

\* The tick has called _run_auto_cleanup: one more worker is in flight.
Fired == BagCardinality(workers') = BagCardinality(workers) + 1

\* The pass the tick has started.
StartedPass == CHOOSE r \in BagToSet(workers' (-) workers) : TRUE

\* The trigger conditions as the specification words them.
CpuLimitOf(mode) ==
  CASE mode = CONSERVATIVE -> 900 [] mode = BALANCED -> 700
    [] mode = AGGRESSIVE -> 500 [] OTHER -> 0

MemoryLimitOf(mode) ==
  CASE mode = CONSERVATIVE -> 950 [] mode = BALANCED -> 850
    [] mode = AGGRESSIVE -> 700 [] OTHER -> 0

CpuOver == main.cpu > CpuLimitOf(auto_clean_mode)

MemoryOver == main.memory > MemoryLimitOf(auto_clean_mode)

PressureCritical == main.pressure = "critical"

PressureWarn == main.pressure = "warn" /\ auto_clean_mode = AGGRESSIVE

TickEligible ==
  /\ auto_clean_mode # OFF
  /\ CpuOver \/ MemoryOver \/ PressureCritical \/ PressureWarn

\* C5: a tick whose mode and readings call for a cleanup triggers one exactly
\* when at least 180 seconds have passed since last_clean_time, and the
\* trigger sets last_clean_time to the current time: 10 seconds after a
\* trigger an eligible tick triggers nothing, 200 seconds after it triggers
\* again.
C5_CooldownGatesTrigger ==
  [][TickEvaluated /\ TickEligible =>
       /\ Fired <=> now - last_clean_time >= 180
       /\ Fired => last_clean_time' = now
       /\ ~ Fired => last_clean_time' = last_clean_time
       /\ now - last_clean_time = 10 => ~ Fired
       /\ now - last_clean_time = 200 => Fired]_vars

\* A trigger has just fired 200 seconds after the start, where only a tick
\* outside the cooldown of the trigger before it can fire.
C5_Witness ==
  /\ now = StartTime + 200
  /\ last_clean_time = now
  /\ \E r \in BagToSet(workers) : r.kind = "auto" /\ r.pc = "min_score"

\* C6: outside the cooldown a tick triggers a cleanup exactly when the mode
\* is not off and the CPU reading is above the mode's CPU threshold (90, 70,
\* 50), or the memory reading is above its memory threshold (95, 85, 70), or
\* the pressure is critical, or the pressure is warn in aggressive mode; a
\* reading equal to a threshold does not trigger; in mode off nothing is
\* triggered and last_clean_time stays; CPU 95, memory 40, pressure normal
\* in conservative mode triggers with the reason "CPU at 95%".
C6_TriggerConditions ==
  [][TickEvaluated =>
       /\ now - last_clean_time >= 180 => (Fired <=> TickEligible)
       /\ auto_clean_mode = OFF =>
            ~ Fired /\ last_clean_time' = last_clean_time
       /\ (/\ now - last_clean_time >= 180
           /\ auto_clean_mode = CONSERVATIVE
           /\ main.cpu = 950 /\ main.memory = 400
           /\ main.pressure = "normal")
            => Fired /\ StartedPass.reason = [text |-> "CPU at", value |-> 95]]_vars

\* The conservative mode has triggered on CPU 95 alone.
C6_Witness ==
  /\ auto_clean_mode = CONSERVATIVE
  /\ last_clean_time = now
  /\ \E r \in BagToSet(workers) :
       /\ r.kind = "auto" /\ r.pc = "min_score"
       /\ r.trigger_mode = CONSERVATIVE
       /\ r.reason = [text |-> "CPU at", value |-> 95]

\* The reason of the first condition that holds, in the order CPU, memory,
\* critical pressure, pressure warning.
FirstTrueReason ==
  IF CpuOver THEN [text |-> "CPU at", value |-> RoundHalfEven(main.cpu, 10)]
  ELSE IF MemoryOver
  THEN [text |-> "Memory at", value |-> RoundHalfEven(main.memory, 10)]
  ELSE IF PressureCritical
  THEN [text |-> "Critical memory pressure", value |-> 0]
  ELSE [text |-> "Memory pressure warning", value |-> 0]

\* C7: a trigger carries the reason of the first condition that holds, in
\* the order CPU, memory, critical pressure, pressure warning; CPU 60,
\* memory 40, pressure warn in aggressive mode gives "CPU at 60%".
C7_FirstConditionNamesReason ==
  [][TickEvaluated /\ Fired => StartedPass.reason = FirstTrueReason]_vars

\* C8: under every interleaving of ticks, automatic triggers, menu actions
\* and worker threads, at most one cleanup or kill pass is in flight.
C8_AtMostOnePassInFlight == PassesInFlight <= 1

\* The thresholds _background_cleanup derives from a mode.
AutoMinScoreOf(mode) == IF mode = AGGRESSIVE THEN 3000 ELSE 5000

AutoMinCpuOf(mode) == IF mode = AGGRESSIVE THEN 200 ELSE 300

\* C9: when the worker of an automatic trigger calls get_killable_processes,
\* min_score and min_cpu are those of the mode that was active when the
\* trigger fired, whatever set_auto_mode has done since.
C9_WorkerUsesTriggerMode ==
  \A r \in BagToSet(workers) :
    r.kind = "auto" /\ r.pc = "list" =>
      /\ r.min_score = AutoMinScoreOf(r.trigger_mode)
      /\ r.min_cpu = AutoMinCpuOf(r.trigger_mode)

\* C10: no signal is sent, no file is deleted and no DNS cache is flushed on
\* the thread that runs the ticks and the menu callbacks.
C10_SideEffectsOffTheRunLoop ==
  /\ main_pass.call.sent = {}
  /\ main_pass.pc \notin {"clean", "dns"}

\* C11: the mode is always one of off, conservative, balanced, aggressive
\* and starts as off; only set_auto_mode changes it, between two ticks and
\* with nothing else changing; a tick evaluates under one mode throughout,
\* and the pass it starts is announced with that mode.
C11_ModeChangesOnlyThroughSetAutoMode ==
  /\ auto_clean_mode = OFF
  /\ [](auto_clean_mode \in {"off", "conservative", "balanced", "aggressive"})
  /\ [][/\ auto_clean_mode' # auto_clean_mode =>
             /\ main.pc = "idle"
             /\ UNCHANGED <<procs, now, current_pid, parent_pids,
                            last_clean_time, main, main_pass, workers,
                            info, listing, disk, last_status, tree>>
        /\ TickEvaluated /\ Fired =>
             StartedPass.trigger_mode = auto_clean_mode]_vars

\* The balanced mode was picked, and the next tick has triggered under it.
C11_Witness ==
  /\ auto_clean_mode = BALANCED
  /\ last_clean_time = now
  /\ \E r \in BagToSet(workers) :
       r.kind = "auto" /\ r.pc = "min_score" /\ r.trigger_mode = BALANCED

\* A step in which clean() returned, with the given dry_run argument.
CleanReturned(dry_run) ==
  /\ disk' # disk
  /\ disk'.call.op = "clean"
  /\ disk'.call.dry_run = dry_run

\* The targets for which the list d.results holds a result that is not a
\* skip.
ProcessedTargets(d) ==
  {i \in 1..Len(cleanup_targets) :
     \E k \in 1..Len(d.results) :
       /\ d.results[k].target = cleanup_targets[i].path
       /\ ~ d.results[k].skipped}

\* C12: a real clean() leaves in place every file that lies under a
\* processed target with min_age_days > 0 and is younger than that many
\* days, and every file whose mtime cannot be read.
C12_YoungFilesSurvive ==
  [][CleanReturned(FALSE) =>
       \A f \in 1..NumFiles :
         /\ disk.files[f].exists
         /\ \/ disk.files[f].unreadable
            \/ \E i \in ProcessedTargets(disk') :
                 /\ <<"below", i, f>> \in PathFacts
                 /\ cleanup_targets[i].min_age_days > 0
                 /\ now - disk.files[f].mtime
                      < cleanup_targets[i].min_age_days * Day
         => disk'.files[f].exists]_vars

\* A real clean of the logs has removed the old crash report and kept the
\* three-day-old log.
C12_Witness ==
  /\ disk.call.op = "clean" /\ ~ disk.call.dry_run
  /\ 17 \in ProcessedTargets(disk)
  /\ disk.files[4].exists /\ ~ disk.files[4].unreadable
  /\ now - disk.files[4].mtime = 3 * Day
  /\ ~ disk.files[5].exists

\* C13: a real clean() leaves in place every file that lies under a
\* processed target and whose path contains one of that target's
\* exclude_patterns, whatever its age and whatever other targets lie inside
\* that target's tree.
C13_ExcludedFilesSurvive ==
  [][CleanReturned(FALSE) =>
       \A f \in 1..NumFiles :
         /\ disk.files[f].exists
         /\ \E i \in ProcessedTargets(disk') :
              /\ <<"below", i, f>> \in PathFacts
              /\ \E k \in 1..Len(cleanup_targets[i].exclude_patterns) :
                   Contains(FilePaths[f],
                            cleanup_targets[i].exclude_patterns[k])
         => disk'.files[f].exists]_vars

\* The targets for which the list d.results holds a result, skipped or not.
ResultTargets(d) ==
  {i \in 1..Len(cleanup_targets) :
     \E k \in 1..Len(d.results) :
       d.results[k].target = cleanup_targets[i].path}

\* C14: clean() has a result only for targets whose category is selected (or
\* when no categories are given), that are safe_to_delete or come with
\* include_unsafe, and that do not require sudo; a target that requires sudo,
\* or an unsafe one without include_unsafe, has no result and every file
\* under it is as it was.
C14_OnlyEligibleTargetsProcessed ==
  [][disk' # disk /\ disk'.call.op = "clean" =>
       /\ \A i \in ResultTargets(disk') :
            /\ \/ disk'.call.categories = <<>>
               \/ cleanup_targets[i].category \in disk'.call.categories[1]
            /\ cleanup_targets[i].safe_to_delete \/ disk'.call.include_unsafe
            /\ ~ cleanup_targets[i].requires_sudo
       /\ \A i \in 1..Len(cleanup_targets) :
            \/ cleanup_targets[i].requires_sudo
            \/ /\ ~ cleanup_targets[i].safe_to_delete
               /\ ~ disk'.call.include_unsafe
            => /\ i \notin ResultTargets(disk')
               /\ i \in disk.dirs => i \in disk'.dirs
               /\ \A f \in 1..NumFiles :
                    <<"below", i, f>> \in PathFacts =>
                      disk'.files[f] = disk.files[f]]_vars

\* A real clean of every category without include_unsafe has emptied the
\* caches and left the file in Downloads and the one in /var/log alone.
C14_Witness ==
  /\ disk.call.op = "clean" /\ ~ disk.call.dry_run
  /\ disk.call.categories = <<>> /\ ~ disk.call.include_unsafe
  /\ ~ disk.files[1].exists
  /\ disk.files[6].exists /\ disk.files[7].exists
  /\ 1 \in ResultTargets(disk) /\ 28 \notin ResultTargets(disk)

\* C15: clean(dry_run=True) changes no file and no directory, every result
\* it returns has dry_run = true and files_deleted = 0, and the session
\* totals stay as they were.
C15_DryRunMutatesNothing ==
  [][CleanReturned(TRUE) =>
       /\ disk'.files = disk.files
       /\ disk'.dirs = disk.dirs
       /\ disk'.total_freed = disk.total_freed
       /\ disk'.total_files = disk.total_files
       /\ \A k \in 1..Len(disk'.results) :
            /\ disk'.results[k].dry_run
            /\ disk'.results[k].files_deleted = 0]_vars

\* After a real clean that freed something, a dry run reports bytes it
\* would free.
C15_Witness ==
  /\ disk.call.op = "clean" /\ disk.call.dry_run
  /\ disk.total_freed > 0 /\ disk.total_files > 0
  /\ \E k \in 1..Len(disk.results) : disk.results[k].bytes_freed > 0

RECURSIVE TotalBytes(_)
\* The sum of bytes_freed over a list of results.
TotalBytes(results) ==
  IF results = <<>> THEN 0
  ELSE Head(results).bytes_freed + TotalBytes(Tail(results))

\* C16: the bytes_freed total of clean(dry_run=True) equals the total of the
\* real clean() with the same arguments run right after it on the same
\* disk.
C16_DryRunTotalEqualsRealTotal ==
  [][CleanReturned(FALSE) =>
       TotalBytes(clean(disk, now, disk'.call.categories, TRUE,
                        disk'.call.include_unsafe).results)
         = TotalBytes(disk'.results)]_vars

\* The place in the registry of the target a result names.
IndexOf(result) ==
  CHOOSE i \in 1..Len(cleanup_targets) :
    cleanup_targets[i].path = result.target

\* The registry places a call's arguments make eligible.
EligibleFor(call) ==
  {i \in 1..Len(cleanup_targets) :
     /\ \/ call.categories = <<>>
        \/ cleanup_targets[i].category \in call.categories[1]
     /\ cleanup_targets[i].safe_to_delete \/ call.include_unsafe
     /\ ~ cleanup_targets[i].requires_sudo}

\* C17: clean() returns one result per eligible target, in registry order,
\* each with the path and the category of its target; a target whose path
\* does not exist gets skipped = true with bytes_freed = 0, files_deleted = 0
\* and no errors, and the targets after it still get their results.
C17_OneResultPerEligibleTarget ==
  [][disk' # disk /\ disk'.call.op = "clean" =>
       LET results == disk'.results
       IN  /\ Len(results) = Cardinality(EligibleFor(disk'.call))
           /\ {IndexOf(results[k]) : k \in 1..Len(results)}
                = EligibleFor(disk'.call)
           /\ \A k \in 1..Len(results) :
                /\ results[k].category
                     = cleanup_targets[IndexOf(results[k])].category
                /\ k > 1 => IndexOf(results[k - 1]) < IndexOf(results[k])
                /\ IndexOf(results[k]) \notin disk.dirs => results[k].skipped
                /\ results[k].skipped =>
                     /\ IndexOf(results[k]) \notin disk'.dirs
                     /\ results[k].bytes_freed = 0
                     /\ results[k].files_deleted = 0
                     /\ results[k].errors = <<>>]_vars

\* A clean of the user and browser caches returned ten results: the cache
\* directory was processed, the directory of Chrome's other cache is
\* missing and was skipped, and the results after it are there.
C17_Witness ==
  /\ disk.call.op = "clean"
  /\ disk.call.categories = <<{"user_cache", "browser_cache"}>>
  /\ Len(disk.results) = 10
  /\ ~ disk.results[1].skipped /\ disk.results[1].bytes_freed > 0
  /\ disk.results[3].skipped
  /\ IndexOf(disk.results[10]) = 36

\* The files a step removed.
Deleted == {f \in 1..NumFiles : disk.files[f].exists /\ ~ disk'.files[f].exists}

\* File f is one that processing target i deletes when nothing fails: it
\* lies under the target, matches none of its exclusions and is old enough.
Deletable(i, f) ==
  /\ <<"below", i, f>> \in PathFacts
  /\ <<"excluded", i, f>> \notin PathFacts
  /\ now - disk.files[f].mtime >= cleanup_targets[i].min_age_days * Day

\* C18: in a real clean a file whose unlink or stat fails stays, is named in
\* the errors of the result of each processed target that tried it, and
\* counts for nothing; every other file a processed target deletes is gone,
\* every eligible target has its result, and the bytes and files reported
\* are those of the files removed.
C18_FileFailuresAreRecordedNotFatal ==
  [][CleanReturned(FALSE) =>
       /\ \A f \in 1..NumFiles :
            /\ disk.files[f].exists
            /\ disk.files[f].locked \/ disk.files[f].unreadable
            => /\ disk'.files[f].exists
               /\ \A k \in 1..Len(disk'.results) :
                    /\ ~ disk'.results[k].skipped
                    /\ \/ /\ disk.files[f].unreadable
                          /\ <<"below", IndexOf(disk'.results[k]), f>>
                               \in PathFacts
                       \/ Deletable(IndexOf(disk'.results[k]), f)
                    => \E e \in 1..Len(disk'.results[k].errors) :
                         disk'.results[k].errors[e].file = f
       /\ \A f \in 1..NumFiles :
            /\ disk.files[f].exists
            /\ ~ disk.files[f].locked /\ ~ disk.files[f].unreadable
            /\ \E i \in ProcessedTargets(disk') : Deletable(i, f)
            => f \in Deleted
       /\ Len(disk'.results) = Cardinality(EligibleFor(disk'.call))
       /\ TotalBytes(disk'.results) = SumSizes(disk, Deleted)
       /\ disk'.total_files - disk.total_files = Cardinality(Deleted)
       /\ disk'.total_freed - disk.total_freed = SumSizes(disk, Deleted)]_vars

\* A real clean met a file of the cache directory that refused unlink: the
\* result holds the error, the other files of that directory were deleted all
\* the same, and a later target deleted its file too.
C18_Witness ==
  /\ disk.call.op = "clean" /\ ~ disk.call.dry_run
  /\ disk.files[1].exists /\ disk.files[1].locked
  /\ ~ disk.files[2].exists /\ ~ disk.files[5].exists
  /\ Len(disk.results) > 17
  /\ disk.results[1].errors = <<[text |-> "Permission denied", file |-> 1]>>
  /\ disk.results[1].files_deleted = 2 /\ disk.results[1].bytes_freed = 130
  /\ disk.results[17].files_deleted = 1

\* The steps a call of kill_process_gracefully takes in this step of the
\* machine: the call before and after.
CallSteps ==
  {s \in Calls \X Calls' :
     s[1].pid = s[2].pid /\ s[1] # s[2] /\ s[1].pc # "returned"}

\* C19: a call that did not refuse its target sends SIGTERM first and
\* SIGKILL only after the grace wait ended with the process still there; it
\* returns True exactly when the process is gone at the return, and it
\* returns False only when terminate() was denied or when the process is
\* still there after SIGKILL and the second wait.
C19_GracefulThenForceful ==
  [][\A s \in CallSteps :
       LET c == s[1]
           d == s[2]
       IN  /\ "SIGTERM" \in d.sent \ c.sent =>
                c.pc = "terminate" /\ c.sent = {}
           /\ "SIGKILL" \in d.sent \ c.sent =>
                c.pc = "force" /\ c.sent = {"SIGTERM"}
           /\ d.pc = "force" =>
                c.pc = "wait" /\ Exists(procs, c.pid) /\ Exists(procs', c.pid)
           /\ d.pc = "returned" /\ d.recheck # "protected" =>
                /\ d.result \in {"True", "False"}
                /\ (d.result = "True") <=> ~ Exists(procs', d.pid)
                /\ d.result = "False" =>
                     \/ /\ c.pc = "terminate" /\ d.sent = {}
                        /\ procs[d.pid].owner = "other"
                     \/ /\ c.pc = "wait_force"
                        /\ d.sent = {"SIGTERM", "SIGKILL"}]_vars

\* A call found its target unprotected, sent SIGTERM, saw the grace wait
\* time out, sent SIGKILL and returned True with the process gone.
C19_Witness ==
  \E c \in Calls :
    /\ c.pc = "returned" /\ c.result = "True"
    /\ c.recheck = "unprotected"
    /\ c.sent = {"SIGTERM", "SIGKILL"}
    /\ ~ Exists(procs, c.pid)

\* C20: the value a call returns when it refuses a protected target is a
\* value that no call returns whose termination of an unprotected target
\* failed, so that the caller can tell the two apart.
C20_RefusalDistinctFromFailure ==
  \A c \in Calls :
    c.pc = "returned" /\ c.recheck = "protected" =>
      \A p \in Pids :
        \A o \in kill_process_gracefully(procs, parent_pids, now, p) :
          o.call.recheck # "protected" /\ Exists(o.table, p) =>
            o.call.result # c.result

\* The ProcessInfo records a query has returned.
Infos ==
  (IF info = NoInfo THEN {} ELSE {info})
  \cup {listing.result[k] : k \in 1..Len(listing.result)}

\* For a text, whether each category, in the order system-critical,
\* development, terminal, browser, communication, cloud-sync, media,
\* background, has a pattern that matches it.
MatchVector(text) ==
  <<CategoryMatches("system_critical", text), CategoryMatches("development", text),
    CategoryMatches("terminal", text), CategoryMatches("browser", text),
    CategoryMatches("communication", text), CategoryMatches("cloud_sync", text),
    CategoryMatches("media", text), CategoryMatches("background", text)>>

\* The match vectors of the scenario texts, computed once.
Matching ==
  {<<x[1], x[2], MatchVector(SearchText(x[1], x[2]))>> :
     x \in ScenarioNames \X ScenarioCmdlines}

\* C21: the category of a process is one category and depends on its name and
\* command line only; it is the first, in the order system-critical,
\* development, terminal, browser, communication, cloud-sync, media,
\* background, that has a pattern matching "name cmdline" without regard to
\* case, so a text that a protected and a killable category both match gets
\* the protected one; it is unknown when no category matches.
C21_FirstMatchingCategoryWins ==
  LET order == <<"system_critical", "development", "terminal", "browser",
                 "communication", "cloud_sync", "media", "background">>
  IN  /\ \A i \in Infos :
           \E m \in Matching :
             /\ m[1] = i.name /\ m[2] = i.cmdline
             /\ \/ /\ i.category = "unknown"
                   /\ \A k \in 1..8 : ~ m[3][k]
                \/ \E k \in 1..8 :
                     /\ i.category = order[k]
                     /\ m[3][k]
                     /\ \A j \in 1..(k - 1) : ~ m[3][j]
             /\ (\E k \in 1..3 : m[3][k]) =>
                  i.category \in {"system_critical", "development", "terminal"}
      /\ \A i, j \in Infos :
           i.name = j.name /\ i.cmdline = j.cmdline => i.category = j.category

\* A process named Firefox and started with "vim" on its command line was
\* analysed: the browser and the development patterns both match, and the
\* category is development.
C21_Witness ==
  /\ info # NoInfo
  /\ info.name = T.Firefox /\ info.cmdline = T.vim
  /\ CategoryMatches("browser", SearchText(info.name, info.cmdline))
  /\ CategoryMatches("development", SearchText(info.name, info.cmdline))
  /\ info.category = "development"

\* CPU and memory readings, in tenths of a percent, on both sides of the
\* clamps at CPU 100 % and memory 10 %.
ProbeCpus == {0, 5, 50, 250, 999, 1000, 1001, 1200, 4000}

ProbeMems == {0, 1, 20, 99, 100, 101, 150, 1000}

\* The score of the analysed process had its readings been cpu and memory.
ScoreAt(i, cpu, memory) ==
  _calculate_score(cpu, memory, i.num_fds, now - i.create_time, i.category, FALSE)

\* C22: with the other inputs fixed, the kill score of an unprotected process
\* does not decrease when its CPU or its memory percentage grows, the
\* clamps at CPU 100 and memory 10 and the rounding to two decimals included.
C22_ScoreMonotoneInCpuAndMemory ==
  info # NoInfo /\ ~ info.is_protected =>
    /\ info.kill_score = ScoreAt(info, info.cpu_percent, info.memory_percent)
    /\ \A cpu \in ProbeCpus, memory \in ProbeMems :
         /\ cpu >= info.cpu_percent /\ memory >= info.memory_percent =>
              ScoreAt(info, cpu, memory) >= info.kill_score
         /\ cpu <= info.cpu_percent /\ memory <= info.memory_percent =>
              ScoreAt(info, cpu, memory) <= info.kill_score

\* An unprotected process above both clamps (CPU 120 %, memory 15 %) was
\* analysed: its score is the one at the clamps and exceeds the score a
\* reading below them gives.
C22_Witness ==
  /\ info # NoInfo /\ ~ info.is_protected
  /\ info.cpu_percent = 1200 /\ info.memory_percent = 150
  /\ info.kill_score = ScoreAt(info, 1000, 100)
  /\ info.kill_score > ScoreAt(info, 999, 99)

\* result is what get_all_processes(min_cpu) has to return on the process
\* table: one record per process that can be analysed and uses at least
\* min_cpu, by descending score, equal scores in the order of enumeration.
SortedListing(result, min_cpu) ==
  /\ \A k \in 1..Len(result) :
       /\ result[k] # None
       /\ result[k] = analyze_process(procs, parent_pids, now, result[k].pid)
       /\ result[k].cpu_percent >= min_cpu
  /\ \A p \in Pids :
       LET i == analyze_process(procs, parent_pids, now, p)
       IN  i # None /\ i.cpu_percent >= min_cpu =>
             \E k \in 1..Len(result) : result[k].pid = p
  /\ \A j, k \in 1..Len(result) :
       j < k => /\ result[j].pid # result[k].pid
                /\ result[j].kill_score >= result[k].kill_score
                /\ result[j].kill_score = result[k].kill_score =>
                     result[j].pid < result[k].pid

\* C23: get_all_processes(min_cpu) returns exactly the processes that can be
\* analysed and have cpu_percent >= min_cpu, sorted by kill score descending
\* with ties in enumeration order; get_top_resource_hogs(limit) returns the
\* first limit entries of that list for min_cpu = 1.0.
C23_ListingSortedStableAndComplete ==
  /\ listing.op = "get_all_processes" =>
       SortedListing(listing.result, listing.min_cpu)
  /\ listing.op = "get_top_resource_hogs" =>
       \E all \in {get_all_processes(procs, parent_pids, now, 10)} :
         /\ SortedListing(all, 10)
         /\ \E limit \in {3, 10} :
              listing.result = SubSeq(all, 1, Min(limit, Len(all)))

\* A listing with floor 30 % was returned in which the two helpers tie and
\* stand in enumeration order, a zombie is absent and a process below the
\* floor is absent.
C23_Witness ==
  /\ listing.op = "get_all_processes" /\ listing.min_cpu = 300
  /\ procs[4].status = "zombie"
  /\ procs[3].cpu < 300
  /\ \E k \in 1..(Len(listing.result) - 1) :
       /\ listing.result[k].pid = 5 /\ listing.result[k + 1].pid = 6
       /\ listing.result[k].kill_score = listing.result[k + 1].kill_score
  /\ \A k \in 1..Len(listing.result) : listing.result[k].pid \notin {3, 4}

\* The processes between q and the root of the process table, q excluded.
RECURSIVE Ancestors(_, _)
Ancestors(table, q) ==
  IF ~ Exists(table, q) \/ ~ Exists(table, table[q].ppid) THEN {}
  ELSE {table[q].ppid} \cup Ancestors(table, table[q].ppid)

DescendantsOf(table, pid) == {q \in Pids : pid \in Ancestors(table, q)}

\* C24: kill_process_tree(pid, timeout) calls kill_process_gracefully on
\* every descendant before the root, in the reverse of the order in which they
\* were discovered and each with half the grace period, then on the root with
\* the full grace period; the count it returns is the number of these calls
\* that returned True, between 0 and 1 + the number of descendants; it is 0,
\* with no call made, when the root no longer exists at entry.
C24_DescendantsBeforeRoot ==
  [][tree' # tree /\ tree'.op = "kill_process_tree" =>
       LET a == tree'.attempts
           root == tree'.pid
           descendants == DescendantsOf(procs, root)
           children == Discover(procs, <<root>>, {})
       IN  IF ~ Exists(procs, root) THEN a = <<>> /\ tree'.killed = 0
           ELSE /\ Len(a) = Cardinality(descendants) + 1
                /\ a[Len(a)].pid = root
                /\ a[Len(a)].timeout = tree'.timeout
                /\ {a[k].pid : k \in 1..(Len(a) - 1)} = descendants
                /\ \A k \in 1..(Len(a) - 1) :
                     /\ 2 * a[k].timeout = tree'.timeout
                     /\ a[k].pid = children[Len(children) + 1 - k]
                /\ \A j, k \in 1..Len(a) :
                     j < k => a[k].pid \notin DescendantsOf(procs, a[j].pid)
                /\ tree'.killed =
                     Cardinality({k \in 1..Len(a) : a[k].result = "True"})
                /\ tree'.killed \in 0..(1 + Cardinality(descendants))
  ]_vars

\* kill_process_tree(3, 2.0) has returned 4: it went for the grandchild 5,
\* then 6, then 4, each with one second, then for 3 with two seconds, and
\* all four are gone.
C24_Witness ==
  /\ tree.op = "kill_process_tree" /\ tree.pid = 3 /\ tree.timeout = 2000
  /\ [k \in 1..Len(tree.attempts) |-> tree.attempts[k].pid] = <<5, 6, 4, 3>>
  /\ [k \in 1..Len(tree.attempts) |-> tree.attempts[k].timeout]
       = <<1000, 1000, 1000, 2000>>
  /\ tree.killed = 4
  /\ \A p \in 3..6 : ~ Exists(procs, p)

\* C25: the pass of an automatic trigger calls get_killable_processes with
\* min_score 30 and min_cpu 20 in aggressive mode and with 50 and 30 in the
\* other modes, attempts at most the 5 first of the list it gets and never
\* reaches the file deletion; a manual process cleanup or a deep clean
\* attempts at most 10.
C25_PassesAreCapped ==
  \A th \in Running :
    LET r == th.rec
    IN  /\ r.kind = "auto" =>
             /\ r.pc = "list" =>
                  <<r.min_score, r.min_cpu>> \in {<<3000, 200>>, <<5000, 300>>}
             /\ r.idx - 1 <= Min(Len(r.killable), 5)
             /\ r.pc \notin {"clean", "dns"}
        /\ r.kind \in {"manual", "deep"} =>
             r.idx - 1 <= Min(Len(r.killable), 10)

\* C26: every unprotected process has a kill score of at least 0, above the
\* -1000 of the protected ones, its category being one of browser,
\* communication, cloud-sync, media, background and unknown, whose modifiers
\* are not negative; hence in every list get_all_processes returns all
\* unprotected processes stand before all protected ones.
C26_UnprotectedAboveProtected ==
  /\ \A i \in Infos :
       ~ i.is_protected =>
         /\ i.category \in {"browser", "communication", "cloud_sync", "media",
                            "background", "unknown"}
         /\ CATEGORY_PENALTIES[i.category] >= 0
         /\ i.kill_score >= 0
         /\ i.kill_score > -100000
  /\ listing.op = "get_all_processes" =>
       \A j, k \in 1..Len(listing.result) :
         listing.result[j].is_protected /\ ~ listing.result[k].is_protected =>
           k < j

\* get_all_processes has returned a list with protected and unprotected
\* processes: the unprotected ones come first and the protected ones, at
\* -1000, last.
C26_Witness ==
  /\ listing.op = "get_all_processes"
  /\ Len(listing.result) >= 4
  /\ ~ listing.result[1].is_protected /\ listing.result[1].kill_score >= 0
  /\ ~ listing.result[2].is_protected
  /\ listing.result[Len(listing.result)].is_protected
  /\ listing.result[Len(listing.result)].kill_score = -100000
  /\ listing.result[Len(listing.result)].pid
       < listing.result[1].pid

\* C27: a call of kill_process_gracefully whose fresh analysis could not
\* tell whether the process is protected (analyze_process returned None)
\* sends no termination signal.
C27_UnknownStatusSendsNothing ==
  \A c \in Calls : c.recheck = "unknown" => c.sent = {}

\* The thermal callback has stored a reading.
ThermalStored == last_status' # last_status /\ main.pc = "idle"

\* C28: the thermal state never causes an automatic trigger: whatever thermal
\* and throttle state the status holds, a tick whose CPU and memory readings
\* are at or below the thresholds of the mode and whose pressure is normal
\* starts no cleanup and leaves last_clean_time, and the thermal callback
\* itself starts none.
C28_ThermalNeverTriggers ==
  [][/\ (/\ TickEvaluated
          /\ main.cpu <= CpuLimitOf(auto_clean_mode)
          /\ main.memory <= MemoryLimitOf(auto_clean_mode)
          /\ main.pressure = "normal")
          => ~ Fired /\ last_clean_time' = last_clean_time
     /\ ThermalStored =>
          /\ workers' = workers /\ main_pass' = main_pass
          /\ last_clean_time' = last_clean_time]_vars

\* A tick in aggressive mode is about to be evaluated outside any cooldown
\* with CPU 50 % and memory 70 %, at the thresholds, and normal pressure,
\* while the status holds the thermal state danger and emergency throttling.
C28_Witness ==
  /\ main.pc = "update_status"
  /\ auto_clean_mode = AGGRESSIVE
  /\ now - last_clean_time >= 180
  /\ main.cpu = 500 /\ main.memory = 700 /\ main.pressure = "normal"
  /\ last_status = <<SystemStatus("danger", "emergency")>>

\* C29: last_clean_time starts at 0 and is written by an automatic trigger
\* only, which sets it to the time of the trigger: set_auto_mode, the ticks
\* that do not fire, the thermal callback, the manual process, cache and deep
\* cleanups and the worker threads leave it as it is, so that switching the
\* mode off and on does not reset a running cooldown and a manual cleanup
\* does not start one.
C29_OnlyTriggersWriteLastCleanTime ==
  /\ last_clean_time = 0
  /\ [][/\ last_clean_time' # last_clean_time =>
             TickEvaluated /\ Fired /\ last_clean_time' = now
        /\ TickEvaluated /\ ~ Fired => last_clean_time' = last_clean_time
        /\ auto_clean_mode' # auto_clean_mode =>
             last_clean_time' = last_clean_time
        /\ main_pass' # main_pass \/ ~ TickEvaluated =>
             last_clean_time' = last_clean_time]_vars

\* Inside the cooldown of a trigger the mode has been switched off and a
\* manual process cleanup is under way: last_clean_time is still the time of
\* the trigger.
C29_Witness ==
  /\ last_clean_time = StartTime
  /\ now - last_clean_time < 180
  /\ auto_clean_mode = OFF
  /\ main_pass.kind = "manual" /\ main_pass.pc = "loop"

\* C30: a process whose name is exactly the literal of an end-anchored
\* protected pattern (zsh of the terminal patterns, node of the development
\* patterns) is classified into that category and is therefore protected,
\* whatever its command line is, the empty and the unreadable one included.
C30_AnchoredNameIsProtected ==
  \A i \in Infos :
    /\ i.name = T.zsh => i.category = "terminal" /\ i.is_protected
    /\ i.name = T.node => i.category = "development" /\ i.is_protected

====
